---- MODULE Spec2Model ----
(***************************************************************************)
(* Relation-aware query rewriting and cascading persistence of rapid-core  *)
(* (packages/rapid-core/src/dataAccess/entityManager.ts).                  *)
(*                                                                         *)
(* The store is two collections, "owner" and "target", and one link table. *)
(* The owner model declares the three relation storage strategies of the   *)
(* engine, all pointing at the target model:                               *)
(*   one      owning one       owner.one_id      -> target.id              *)
(*   fkMany   many via FK      target.owner_id   -> owner.id               *)
(*   linkMany many via link    owner_target_links(owner_id, target_id)     *)
(* and one relation of each strategy that lacks a column mapping (oneBare,   *)
(* fkManyBare, linkNoSelf, linkNoTarget).  The target model refers to       *)
(* itself, so that embedded objects nest:                                  *)
(*   parent   owning one       target.parent_id  -> target.id              *)
(*   children many via FK      target.parent_id  -> target.id              *)
(* Every handler is one action; the storage operations it issues are       *)
(* logged in ops, the events it emits in events, and the store it started  *)
(* from is kept in pre.  Concurrent updateEntityById calls are tasks that   *)
(* advance by one awaited storage operation at a time.                     *)
(***************************************************************************)
EXTENDS Integers, Sequences, FiniteSets, TLC

\* Bounds of the model: ids a collection may allocate, length of a relation list.
MaxOwner == 2
MaxTarget == 2
MaxLen == 2
\* The ids the owner and the target collection may allocate when embedded objects
\* nest.
MaxNestedOwner == 1
MaxNested == 6

VARIABLES rows, links, nextId, call, ret, ops, events, pre, tasks

vars == <<rows, links, nextId, call, ret, ops, events, pre, tasks>>

----------------------------------------------------------------------------
\* Values

\* SQL NULL of an id-typed column, and JavaScript undefined of an id-typed value.
NullId == 0
Undefined == 0 - 1
\* SQL NULL of the text column.
NullText == "null"

OwnerNames == {"a"}
TargetNames == {"x"}

\* A value given for a relation: a bare id, an object, or an array of those.
BareId(i) == [kind |-> "id", id |-> i]
Obj(fields) == [kind |-> "object", fields |-> fields]
Arr(items) == [kind |-> "array", items |-> items]

\* lodash isObject: objects and arrays; lodash isArray.
isObject(v) == v.kind \in {"object", "array"}
isArray(v) == v.kind = "array"

\* obj["id"] of an object value: undefined when the key is missing.
IdOf(v) == IF v.kind = "object" /\ "id" \in DOMAIN v.fields THEN v.fields["id"] ELSE Undefined

\* JavaScript truthiness of an id-typed value.
Truthy(i) == i # Undefined /\ i # NullId

isNullOrUndefined(i) == i \in {NullId, Undefined}

Range(s) == {s[i] : i \in DOMAIN s}

\* Only({e : x \in {v}}) is e with x standing for the value of v.
Only(S) == CHOOSE x \in S : TRUE

----------------------------------------------------------------------------
\* Model schema (RpdDataModel / RpdDataModelProperty); "" is an unset string.

Property(code, relation, columnName, targetIdColumnName, selfIdColumnName, linkTableName) ==
  [code |-> code, relation |-> relation, columnName |-> columnName,
   targetSingularCode |-> IF relation = "" THEN "" ELSE "target",
   targetIdColumnName |-> targetIdColumnName, selfIdColumnName |-> selfIdColumnName,
   linkTableName |-> linkTableName]

LinkTable == "owner_target_links"

OwnerProperties ==
  << Property("id", "", "id", "", "", ""),
     Property("name", "", "name", "", "", ""),
     Property("one", "one", "", "one_id", "", ""),
     Property("fkMany", "many", "", "", "owner_id", ""),
     Property("linkMany", "many", "", "target_id", "owner_id", LinkTable),
     Property("oneBare", "one", "", "", "", ""),
     Property("fkManyBare", "many", "", "", "", ""),
     Property("linkNoSelf", "many", "", "target_id", "", LinkTable),
     Property("linkNoTarget", "many", "", "", "owner_id", LinkTable) >>

TargetProperties ==
  << Property("id", "", "id", "", "", ""),
     Property("name", "", "name", "", "", ""),
     Property("owner_id", "", "owner_id", "", "", ""),
     Property("parent", "one", "", "parent_id", "", ""),
     Property("children", "many", "", "", "parent_id", "") >>

Models == {"owner", "target"}

getModel(m) ==
  [namespace |-> "app", singularCode |-> m,
   properties |-> IF m = "owner" THEN OwnerProperties ELSE TargetProperties]

\* Physical columns of a collection's table; "legacy" is a column of the owner
\* table that no property declares.
TableColumns(m) ==
  IF m = "owner" THEN {"id", "name", "one_id", "legacy"} ELSE {"id", "name", "owner_id", "parent_id"}

ColumnDefault(c) == IF c = "name" THEN NullText ELSE NullId

isRelationProperty(p) == p.relation \in {"one", "many"}

\* model.properties.find(e => e.code === code): the first match, or NoProperty.
NoProperty == Property("", "", "", "", "", "")
HasProperty(m, code) == \E i \in DOMAIN getModel(m).properties : getModel(m).properties[i].code = code
findProperty(m, code) ==
  LET ps == getModel(m).properties
      hits == {i \in DOMAIN ps : ps[i].code = code}
  IN IF hits = {} THEN NoProperty
     ELSE ps[CHOOSE i \in hits : \A j \in hits : i <= j]

\* The property codes of keys(o), in the order the schema declares them.
PropertyKeys(m, o) ==
  LET ps == getModel(m).properties
  IN SelectSeq([i \in DOMAIN ps |-> ps[i].code], LAMBDA c : c \in DOMAIN o)

EmptyObject == [k \in {} |-> NullId]

\* mapEntityToDbRow: scalar properties go to their column, relation properties are
\* left to the cascade, keys that name no property pass through as column names.
mapEntityToDbRow(m, entity) ==
  LET cols == {k \in DOMAIN entity : ~isRelationProperty(findProperty(m, k))}
      colOf(k) == IF HasProperty(m, k) /\ findProperty(m, k).columnName # ""
                  THEN findProperty(m, k).columnName ELSE k
      keyOf(c) == CHOOSE k \in cols : colOf(k) = c
  IN [c \in {colOf(k) : k \in cols} |-> entity[keyOf(c)]]

\* mapDbRowToEntity: the columns a property of the model declares (as its column or
\* as its foreign key) and the relation values attached under a relation property's
\* code; the other columns only when keepNonPropertyFields.
mapDbRowToEntity(m, row, keepNonPropertyFields) ==
  LET ps == getModel(m).properties
      declared == {ps[i].columnName : i \in DOMAIN ps}
                    \cup {ps[i].targetIdColumnName : i \in {j \in DOMAIN ps : ps[j].relation = "one"}}
                    \cup {ps[i].code : i \in {j \in DOMAIN ps : isRelationProperty(ps[j])}}
      keep == {c \in DOMAIN row : keepNonPropertyFields \/ c \in declared}
  IN [c \in keep |-> row[c]]

\* getEntityPartChanges: the keys of `after` whose value differs structurally from
\* `before` (a key `before` lacks differs); the empty object stands for null.
getEntityPartChanges(before, after) ==
  LET changed == {k \in DOMAIN after : k \notin DOMAIN before \/ before[k] # after[k]}
  IN [k \in changed |-> after[k]]

----------------------------------------------------------------------------
\* Filters (EntityFilterOptions)

Leaf(field, operator, value) == [operator |-> operator, field |-> field, value |-> value]
Bool(operator, filters) == [operator |-> operator, filters |-> filters]
Existence(operator, field, filters) == [operator |-> operator, field |-> field, filters |-> filters]

RECURSIVE Matches(_, _)
\* The Data Accessor's reading of one filter on one row.  It is relation-unaware:
\* an existence node selects nothing.
Matches(row, f) ==
  CASE f.operator = "eq" -> f.field \in DOMAIN row /\ row[f.field] = f.value
    [] f.operator = "ne" -> f.field \in DOMAIN row /\ row[f.field] # f.value
    [] f.operator = "in" -> f.field \in DOMAIN row /\ row[f.field] \in Range(f.value)
    [] f.operator = "notIn" -> f.field \in DOMAIN row /\ row[f.field] \notin Range(f.value)
    [] f.operator = "and" -> \A i \in DOMAIN f.filters : Matches(row, f.filters[i])
    [] f.operator = "or" -> \E i \in DOMAIN f.filters : Matches(row, f.filters[i])
    [] OTHER -> FALSE

MatchesAll(row, filters) == \A i \in DOMAIN filters : Matches(row, filters[i])

----------------------------------------------------------------------------
\* The store threaded through one handler: collections, link tables, id
\* sequences, the operations issued so far, the events emitted so far, the
\* error thrown ("" while none), and of createEntity the calls made so far, the
\* calls on the stack and the most there have been on it.

Store(r, l, n, u) ==
  [rows |-> r, links |-> l, nextId |-> n, undefinedAsNull |-> u,
   ops |-> <<>>, events |-> <<>>, err |-> "", calls |-> 0, depth |-> 0, deepest |-> 0]

Log(S, o) == [S EXCEPT !.ops = Append(@, o)]
Throw(S, e) == [S EXCEPT !.err = e]
Failed(S) == S.err # ""

\* A call of createEntity begins, and returns.
Enter(S) ==
  [S EXCEPT !.calls = @ + 1, !.depth = @ + 1,
            !.deepest = IF S.depth + 1 > @ THEN S.depth + 1 ELSE @]
Leave(S) == [S EXCEPT !.depth = @ - 1]

RECURSIVE SortById(_)
\* Rows in storage order (ascending id).
SortById(set) ==
  IF set = {} THEN <<>>
  ELSE LET r == CHOOSE x \in set : \A y \in set : x["id"] <= y["id"]
       IN <<r>> \o SortById(set \ {r})

\* IRpdDataAccessor.find
DaFind(S, m, filters, properties) ==
  [S |-> Log(S, [op |-> "find", model |-> m, filters |-> filters, properties |-> properties]),
   val |-> SortById({r \in S.rows[m] : MatchesAll(r, filters)})]

\* IRpdDataAccessor.findById
DaFindById(S, m, id) ==
  LET hit == {r \in S.rows[m] : r["id"] = id}
  IN [S |-> Log(S, [op |-> "findById", model |-> m, id |-> id]),
      found |-> hit # {},
      val |-> IF hit = {} THEN EmptyObject ELSE CHOOSE r \in hit : TRUE]

\* IRpdDataAccessor.create: the row gets the next id of the collection's sequence
\* and the column defaults.
DaCreate(S, m, row) ==
  LET id == S.nextId[m]
      newRow == [c \in TableColumns(m) |->
                   IF c = "id" THEN id
                   ELSE IF c \in DOMAIN row THEN row[c] ELSE ColumnDefault(c)]
  IN [S |-> Log([S EXCEPT !.rows[m] = @ \cup {newRow}, !.nextId[m] = id + 1],
                [op |-> "create", model |-> m, row |-> row]),
      val |-> newRow]

\* IRpdDataAccessor.updateById.  A column given as undefined is either written as
\* NULL or left as it is, as the accessor chooses (S.undefinedAsNull).
DaUpdateById(S, m, id, partial) ==
  LET hit == {r \in S.rows[m] : r["id"] = id}
      old == CHOOSE r \in hit : TRUE
      undef(c) == c # "name" /\ partial[c] = Undefined
      new == [c \in TableColumns(m) |->
                IF c \notin DOMAIN partial THEN old[c]
                ELSE IF undef(c) THEN (IF S.undefinedAsNull THEN NullId ELSE old[c])
                ELSE partial[c]]
      logged == Log(S, [op |-> "updateById", model |-> m, id |-> id, row |-> partial])
  IN IF hit = {} THEN [S |-> logged, val |-> EmptyObject]
     ELSE [S |-> [logged EXCEPT !.rows[m] = (@ \ hit) \cup {new}], val |-> new]

\* IRpdDataAccessor.deleteById
DaDeleteById(S, m, id) ==
  Log([S EXCEPT !.rows[m] = {r \in @ : r["id"] # id}],
      [op |-> "deleteById", model |-> m, id |-> id])

\* Link tables are bags of (self id, target id) rows.
LinkCount(L, p) == IF p \in DOMAIN L THEN L[p] ELSE 0
LinkAdd(L, p) == IF p \in DOMAIN L THEN [L EXCEPT ![p] = @ + 1] ELSE (p :> 1) @@ L
\* The bag without the rows of the given pairs.
LinkRemove(L, gone) == [p \in DOMAIN L \ gone |-> L[p]]
\* The link rows of a bag, in storage order, one element per row.
RECURSIVE LinkRows(_)
LinkRows(L) ==
  IF DOMAIN L = {} THEN <<>>
  ELSE LET p == CHOOSE x \in DOMAIN L : \A y \in DOMAIN L :
                   x[1] < y[1] \/ (x[1] = y[1] /\ x[2] <= y[2])
       IN [i \in 1..L[p] |-> p] \o LinkRows(LinkRemove(L, {p}))

\* The INSERT that inserts whether or not the pair is there.
SqlInsertLinkUnguarded(S, table, selfId, targetId) ==
  [Log(S, [op |-> "sql", stmt |-> "INSERT", table |-> table,
           self |-> selfId, target |-> targetId])
     EXCEPT !.links[table] = LinkAdd(@, <<selfId, targetId>>)]

\* queryDatabaseObject("INSERT INTO <link table> (self, target) VALUES ($1, $2)
\* ON CONFLICT DO NOTHING"): the pair is the key of a link table, an existing pair
\* conflicts.
SqlInsertLinkOnConflictDoNothing(S, table, selfId, targetId) ==
  LET p == <<selfId, targetId>>
      logged == Log(S, [op |-> "sql", stmt |-> "INSERT", table |-> table,
                        self |-> selfId, target |-> targetId])
  IN IF LinkCount(S.links[table], p) > 0 THEN logged
     ELSE [logged EXCEPT !.links[table] = LinkAdd(@, p)]

\* queryDatabaseObject("INSERT INTO <link table> ... SELECT $1, $2 WHERE NOT EXISTS
\* (SELECT ... WHERE self = $1 AND target = $2)")
SqlInsertLinkWhereNotExists(S, table, selfId, targetId) ==
  LET p == <<selfId, targetId>>
      logged == Log(S, [op |-> "sql", stmt |-> "INSERT", table |-> table,
                        self |-> selfId, target |-> targetId])
  IN IF LinkCount(S.links[table], p) > 0 THEN logged
     ELSE [logged EXCEPT !.links[table] = LinkAdd(@, p)]

\* The DELETE with the owner's id compared to the target column.
SqlDeleteLinksOfTarget(S, table, selfId) ==
  Log([S EXCEPT !.links[table] = LinkRemove(@, {q \in DOMAIN @ : q[2] = selfId})],
      [op |-> "sql", stmt |-> "DELETE", table |-> table, self |-> selfId, target |-> NullId])

\* queryDatabaseObject("DELETE FROM <link table> WHERE self = $1")
SqlDeleteLinksOfSelf(S, table, selfId) ==
  Log([S EXCEPT !.links[table] = LinkRemove(@, {q \in DOMAIN @ : q[1] = selfId})],
      [op |-> "sql", stmt |-> "DELETE", table |-> table, self |-> selfId, target |-> NullId])

\* The DELETE with the condition on the target column left out.
SqlDeleteLinkOfAnyTarget(S, table, selfId, targetId) ==
  Log([S EXCEPT !.links[table] = LinkRemove(@, {q \in DOMAIN @ : q[1] = selfId})],
      [op |-> "sql", stmt |-> "DELETE", table |-> table, self |-> selfId, target |-> targetId])

\* The DELETE with the condition on the self column left out.
SqlDeleteLinkOfAnyOwner(S, table, selfId, targetId) ==
  Log([S EXCEPT !.links[table] = LinkRemove(@, {q \in DOMAIN @ : q[2] = targetId})],
      [op |-> "sql", stmt |-> "DELETE", table |-> table, self |-> selfId, target |-> targetId])

\* queryDatabaseObject("DELETE FROM <link table> WHERE self = $1 AND target = $2")
SqlDeleteLink(S, table, selfId, targetId) ==
  Log([S EXCEPT !.links[table] = LinkRemove(@, {<<selfId, targetId>>})],
      [op |-> "sql", stmt |-> "DELETE", table |-> table, self |-> selfId, target |-> targetId])

\* queryDatabaseObject("SELECT * FROM <link table> WHERE self = ANY($1)")
SqlSelectLinksBySelf(S, table, selfIds) ==
  [S |-> Log(S, [op |-> "sql", stmt |-> "SELECT", table |-> table]),
   val |-> SelectSeq(LinkRows(S.links[table]), LAMBDA p : p[1] \in Range(selfIds))]

\* queryDatabaseObject("SELECT * FROM <link table> WHERE target = ANY($1)")
SqlSelectLinksByTarget(S, table, targetIds) ==
  [S |-> Log(S, [op |-> "sql", stmt |-> "SELECT", table |-> table]),
   val |-> SelectSeq(LinkRows(S.links[table]), LAMBDA p : p[2] \in Range(targetIds))]

\* server.emitEvent; `at` is the number of storage operations issued before it.
emitEvent(S, name, payload) ==
  [S EXCEPT !.events = Append(@, [name |-> name, payload |-> payload, at |-> Len(S.ops)])]

----------------------------------------------------------------------------
\* Filter Rewriter

\* The ids (or the values of another column) of the rows found, as an array.
Column(found, c) == [i \in DOMAIN found |-> found[i][c]]

ContainmentOperator(operator) == IF operator = "exists" THEN "in" ELSE "notIn"

\* The general path of an existence filter on a one-relation: query the target
\* collection, put a leaf on the foreign key.
OneRelationSubquery(S, filter, relationProperty) ==
  Only({ [S |-> found.S,
          val |-> <<Leaf(relationProperty.targetIdColumnName,
                         ContainmentOperator(filter.operator), Column(found.val, "id"))>>]
         : found \in {DaFind(S, relationProperty.targetSingularCode, filter.filters, <<"id">>)} })

\* "Optimize when filtering by id of related entity" applies.
IsRelatedIdFilter(relatedEntityFilters) ==
  /\ Len(relatedEntityFilters) = 1
  /\ relatedEntityFilters[1].operator \in {"eq", "in"}
  /\ "field" \in DOMAIN relatedEntityFilters[1]
  /\ relatedEntityFilters[1].field = "id"

\* The leaf the optimisation puts for the existence filter, without a query.
OneRelationShortCircuit(S, filter, relationProperty) ==
  LET relatedEntityIdFilter == filter.filters[1]
      replacedOperator ==
        IF filter.operator = "exists" THEN relatedEntityIdFilter.operator
        ELSE IF relatedEntityIdFilter.operator = "eq" THEN "ne" ELSE "notIn"
  IN [S |-> S,
      val |-> <<Leaf(relationProperty.targetIdColumnName, replacedOperator,
                     relatedEntityIdFilter.value)>>]

\* An existence filter on a many-relation without link table.
ManyRelationSubquery(S, filter, relationProperty) ==
  IF relationProperty.selfIdColumnName = ""
  THEN [S |-> Throw(S, "selfIdColumnName was not configured"), val |-> <<>>]
  ELSE Only({ [S |-> found.S,
               val |-> <<Leaf("id", ContainmentOperator(filter.operator),
                              Column(found.val, relationProperty.selfIdColumnName))>>]
              : found \in {DaFind(S, relationProperty.targetSingularCode, filter.filters,
                                  <<relationProperty.selfIdColumnName>>)} })

\* The link-table subquery collecting the target ids of the links, not the self ids.
LinkRelationSubqueryOfTargets(S, filter, relationProperty) ==
  Only({ Only({ [S |-> linked.S,
                 val |-> <<Leaf("id", ContainmentOperator(filter.operator),
                                Column(linked.val, 2))>>]
                : linked \in {SqlSelectLinksByTarget(found.S, relationProperty.linkTableName,
                                                     Column(found.val, "id"))} })
         : found \in {DaFind(S, relationProperty.targetSingularCode, filter.filters,
                             <<"id">>)} })

\* An existence filter on a many-relation with link table.
LinkRelationSubquery(S, filter, relationProperty) ==
  IF relationProperty.selfIdColumnName = ""
  THEN [S |-> Throw(S, "selfIdColumnName was not configured"), val |-> <<>>]
  ELSE IF relationProperty.targetIdColumnName = ""
  THEN [S |-> Throw(S, "targetIdColumnName was not configured"), val |-> <<>>]
  ELSE Only({ Only({ [S |-> linked.S,
                      val |-> <<Leaf("id", ContainmentOperator(filter.operator),
                                     Column(linked.val, 1))>>]
                     : linked \in {SqlSelectLinksByTarget(found.S, relationProperty.linkTableName,
                                                          Column(found.val, "id"))} })
              : found \in {DaFind(S, relationProperty.targetSingularCode, filter.filters,
                                  <<"id">>)} })

\* One existence filter: what is pushed to replacedFilters, or the error thrown.
ReplaceExistence(S, m, filter) ==
  IF ~HasProperty(m, filter.field)
  THEN [S |-> Throw(S, "Invalid filters. Property was not found"), val |-> <<>>]
  ELSE IF ~isRelationProperty(findProperty(m, filter.field))
  THEN [S |-> Throw(S, "Invalid filters. Existence operator on a non-relation property"),
        val |-> <<>>]
  ELSE IF "filters" \notin DOMAIN filter \/ Len(filter.filters) = 0
  THEN [S |-> Throw(S, "Invalid filters. 'filters' must be provided"), val |-> <<>>]
  ELSE IF findProperty(m, filter.field).relation = "one"
  THEN IF IsRelatedIdFilter(filter.filters)
       THEN OneRelationShortCircuit(S, filter, findProperty(m, filter.field))
       ELSE OneRelationSubquery(S, filter, findProperty(m, filter.field))
  ELSE IF findProperty(m, filter.field).linkTableName = ""
  THEN ManyRelationSubquery(S, filter, findProperty(m, filter.field))
  ELSE LinkRelationSubquery(S, filter, findProperty(m, filter.field))

RECURSIVE ReplaceWithoutDescending(_, _, _, _, _)
\* The loop with an and/or node pushed as it is, its children not rewritten.
ReplaceWithoutDescending(S, m, filters, i, replacedFilters) ==
  IF Failed(S) THEN [S |-> S, val |-> <<>>]
  ELSE IF i > Len(filters) THEN [S |-> S, val |-> replacedFilters]
  ELSE IF filters[i].operator \in {"exists", "notExists"}
  THEN Only({ ReplaceWithoutDescending(one.S, m, filters, i + 1, replacedFilters \o one.val)
              : one \in {ReplaceExistence(S, m, filters[i])} })
  ELSE ReplaceWithoutDescending(S, m, filters, i + 1, Append(replacedFilters, filters[i]))

RECURSIVE ReplaceFrom(_, _, _, _, _)
\* The loop of replaceFiltersWithFiltersOperator from filter i on; a throw ends it.
ReplaceFrom(S, m, filters, i, replacedFilters) ==
  IF Failed(S) THEN [S |-> S, val |-> <<>>]
  ELSE IF i > Len(filters) THEN [S |-> S, val |-> replacedFilters]
  ELSE IF filters[i].operator \in {"and", "or"}
  THEN Only({ ReplaceFrom(sub.S, m, filters, i + 1,
                          Append(replacedFilters, [filters[i] EXCEPT !.filters = sub.val]))
              : sub \in {ReplaceFrom(S, m, filters[i].filters, 1, <<>>)} })
  ELSE IF filters[i].operator \in {"exists", "notExists"}
  THEN Only({ ReplaceFrom(one.S, m, filters, i + 1, replacedFilters \o one.val)
              : one \in {ReplaceExistence(S, m, filters[i])} })
  ELSE ReplaceFrom(S, m, filters, i + 1, Append(replacedFilters, filters[i]))

replaceFiltersWithFiltersOperator(S, m, filters) == ReplaceFrom(S, m, filters, 1, <<>>)

----------------------------------------------------------------------------
\* Find

\* One property code of options.properties: a relation goes to
\* relationPropertiesToSelect (a one-relation also selects its foreign key), a
\* scalar selects its column.
SelectProperty(S, m, propertyCode, relations, fields) ==
  IF ~HasProperty(m, propertyCode)
  THEN [S |-> Throw(S, "Collection does not have a property"), relations |-> <<>>,
        fields |-> <<>>]
  ELSE IF ~isRelationProperty(findProperty(m, propertyCode))
  THEN [S |-> S, relations |-> relations,
        fields |-> Append(fields, IF findProperty(m, propertyCode).columnName # ""
                                  THEN findProperty(m, propertyCode).columnName
                                  ELSE propertyCode)]
  ELSE IF findProperty(m, propertyCode).relation = "one"
            /\ findProperty(m, propertyCode).linkTableName = ""
  THEN IF findProperty(m, propertyCode).targetIdColumnName = ""
       THEN [S |-> Throw(S, "'targetIdColumnName' should be configured"), relations |-> <<>>,
             fields |-> <<>>]
       ELSE [S |-> S, relations |-> Append(relations, findProperty(m, propertyCode)),
             fields |-> Append(fields, findProperty(m, propertyCode).targetIdColumnName)]
  ELSE [S |-> S, relations |-> Append(relations, findProperty(m, propertyCode)),
        fields |-> fields]

RECURSIVE SelectProperties(_, _, _, _, _, _)
\* forEach(options.properties, ...) from property i on; a throw ends it.
SelectProperties(S, m, properties, i, relations, fields) ==
  IF Failed(S) \/ i > Len(properties) THEN [S |-> S, relations |-> relations, fields |-> fields]
  ELSE Only({ SelectProperties(one.S, m, properties, i + 1, one.relations, one.fields)
              : one \in {SelectProperty(S, m, properties[i], relations, fields)} })

\* find(rows, r => r[c] == v), then mapDbRowToEntity; the empty object stands for
\* the null of a row that is not there.
FindMapped(m, found, c, v) ==
  IF \E i \in DOMAIN found : found[i][c] = v
  THEN mapDbRowToEntity(m, found[CHOOSE i \in DOMAIN found :
                                   found[i][c] = v /\ \A j \in 1..(i - 1) : found[j][c] # v],
                        FALSE)
  ELSE EmptyObject

\* filter(rows, r => r[c] == v).map(mapDbRowToEntity)
FilterMapped(m, found, c, v) ==
  Only({ [i \in DOMAIN hits |-> mapDbRowToEntity(m, hits[i], FALSE)]
         : hits \in {SelectSeq(found, LAMBDA r : r[c] = v)} })

\* The link rows of the page's entities, each with its target entity: one query
\* of the link table, one of the target collection.
findManyRelationLinksViaLinkTable(S, relationProperty, entityIds) ==
  Only({ Only({ [S |-> targetEntities.S,
                 val |-> [i \in DOMAIN linked.val |->
                            [self |-> linked.val[i][1],
                             targetEntity |-> FindMapped(relationProperty.targetSingularCode,
                                                         targetEntities.val, "id",
                                                         linked.val[i][2])]]]
                : targetEntities \in {DaFind(linked.S, relationProperty.targetSingularCode,
                                             <<Leaf("id", "in", Column(linked.val, 2))>>, <<>>)} })
         : linked \in {SqlSelectLinksBySelf(S, relationProperty.linkTableName, entityIds)} })

RECURSIVE findManyRelatedEntitiesOneByOne(_, _, _)
\* The targets of an FK many-relation fetched with one query for every entity of
\* the page.
findManyRelatedEntitiesOneByOne(S, relationProperty, entityIds) ==
  IF entityIds = <<>> THEN [S |-> S, val |-> <<>>]
  ELSE Only({ Only({ [S |-> rest.S, val |-> one.val \o rest.val]
                     : rest \in {findManyRelatedEntitiesOneByOne(one.S, relationProperty,
                                                                 Tail(entityIds))} })
              : one \in {DaFind(S, relationProperty.targetSingularCode,
                                <<Leaf(relationProperty.selfIdColumnName, "in",
                                       <<Head(entityIds)>>)>>, <<>>)} })

\* The targets whose foreign key is the id of an entity of the page: one query.
findManyRelatedEntitiesViaIdPropertyCode(S, relationProperty, entityIds) ==
  DaFind(S, relationProperty.targetSingularCode,
         <<Leaf(relationProperty.selfIdColumnName, "in", entityIds)>>, <<>>)

\* The targets the entities of the page refer to: one query.
findOneRelatedEntitiesViaIdPropertyCode(S, relationProperty, targetEntityIds) ==
  DaFind(S, relationProperty.targetSingularCode, <<Leaf("id", "in", targetEntityIds)>>, <<>>)

RECURSIVE Uniq(_)
\* lodash uniq: the first occurrence of every value, in order.
Uniq(s) ==
  IF s = <<>> THEN <<>>
  ELSE Only({ IF s[Len(s)] \in Range(front) THEN front ELSE Append(front, s[Len(s)])
              : front \in {Uniq(SubSeq(s, 1, Len(s) - 1))} })

\* One relation property of relationPropertiesToSelect: the related entities are
\* fetched for the whole page and attached to every entity under the property code.
ExpandRelation(S, relationProperty, entities) ==
  IF relationProperty.linkTableName # ""
  THEN IF relationProperty.relation = "many"
       THEN Only({ [S |-> relationLinks.S,
                    val |-> [i \in DOMAIN entities |->
                               (relationProperty.code :>
                                  Column(SelectSeq(relationLinks.val,
                                                   LAMBDA l : l.self = entities[i]["id"]),
                                         "targetEntity"))
                                 @@ entities[i]]]
                   : relationLinks \in {findManyRelationLinksViaLinkTable(
                                          S, relationProperty, Column(entities, "id"))} })
       ELSE [S |-> S, val |-> entities]
  ELSE IF relationProperty.relation = "many"
  THEN Only({ [S |-> relatedEntities.S,
               val |-> [i \in DOMAIN entities |->
                          (relationProperty.code :>
                             FilterMapped(relationProperty.targetSingularCode,
                                          relatedEntities.val,
                                          relationProperty.selfIdColumnName, entities[i]["id"]))
                            @@ entities[i]]]
              : relatedEntities \in {findManyRelatedEntitiesViaIdPropertyCode(
                                       S, relationProperty, Column(entities, "id"))} })
  ELSE Only({ [S |-> relatedEntities.S,
               val |-> [i \in DOMAIN entities |->
                          (relationProperty.code :>
                             FindMapped(relationProperty.targetSingularCode,
                                        relatedEntities.val, "id",
                                        entities[i][relationProperty.targetIdColumnName]))
                            @@ entities[i]]]
              : relatedEntities \in {findOneRelatedEntitiesViaIdPropertyCode(
                                       S, relationProperty,
                                       Uniq(SelectSeq(Column(entities,
                                                             relationProperty.targetIdColumnName),
                                                      LAMBDA v : ~isNullOrUndefined(v))))} })

RECURSIVE ExpandRelations(_, _, _, _)
\* The loop over relationPropertiesToSelect from property i on.
ExpandRelations(S, relations, i, entities) ==
  IF i > Len(relations) THEN [S |-> S, val |-> entities]
  ELSE Only({ ExpandRelations(one.S, relations, i + 1, one.val)
              : one \in {ExpandRelation(S, relations[i], entities)} })

\* findEntities from the query of the base collection on: an empty page is
\* returned as it is, the others get their relations and are mapped.
FindPage(S, m, options, filters, selected) ==
  Only({ IF Len(found.val) = 0 THEN [S |-> found.S, val |-> <<>>]
         ELSE Only({ [S |-> expanded.S,
                      val |-> [i \in DOMAIN expanded.val |->
                                 mapDbRowToEntity(m, expanded.val[i],
                                                  options.keepNonPropertyFields)]]
                     : expanded \in {ExpandRelations(found.S, selected.relations, 1,
                                                     found.val)} })
         : found \in {DaFind(S, m, filters, selected.fields)} })

\* findEntities querying the base collection even when the rewrite has thrown.
findEntitiesQueryingOnFailure(S, m, options) ==
  Only({ IF Failed(selected.S) THEN [S |-> selected.S, val |-> <<>>]
         ELSE Only({ IF Failed(processed.S)
                     THEN [S |-> DaFind(processed.S, m, <<>>, <<>>).S, val |-> <<>>]
                     ELSE FindPage(processed.S, m, options, processed.val, selected)
                     : processed \in {replaceFiltersWithFiltersOperator(selected.S, m,
                                                                        options.filters)} })
         : selected \in {SelectProperties(S, m, options.properties, 1, <<>>, <<>>)} })

\* findEntities: sort the requested properties, rewrite the filters, query the base
\* collection, expand the relations of the page, map the rows.
findEntities(S, m, options) ==
  Only({ IF Failed(selected.S) THEN [S |-> selected.S, val |-> <<>>]
         ELSE Only({ IF Failed(processed.S) THEN [S |-> processed.S, val |-> <<>>]
                     ELSE FindPage(processed.S, m, options, processed.val, selected)
                     : processed \in {replaceFiltersWithFiltersOperator(selected.S, m,
                                                                        options.filters)} })
         : selected \in {SelectProperties(S, m, options.properties, 1, <<>>, <<>>)} })

\* findEntity: first(entities); found is FALSE for undefined.
findEntity(S, m, options) ==
  Only({ [S |-> r.S, found |-> Len(r.val) > 0,
          val |-> IF Len(r.val) > 0 THEN r.val[1] ELSE EmptyObject]
         : r \in {findEntities(S, m, options)} })

findById(S, m, id, keepNonPropertyFields) ==
  findEntity(S, m, [filters |-> <<Leaf("id", "eq", id)>>, properties |-> <<>>,
                    keepNonPropertyFields |-> keepNonPropertyFields])

----------------------------------------------------------------------------
\* Cascading create

RECURSIVE createEntity(_, _, _)

\* The codes among keys(o) of the properties with the given relation, in order.
RelationCodes(m, o, relation) ==
  SelectSeq(PropertyKeys(m, o), LAMBDA c : findProperty(m, c).relation = relation)

\* The existing entity linked by foreign key in the returned entity only: the
\* updateById of the target row is left out.
LinkExistingEntityInMemoryOnly(S, property, selfId, relatedEntityId) ==
  Only({ IF ~found.found
         THEN [S |-> Throw(found.S, "Entity in field is not exists."), val |-> EmptyObject]
         ELSE IF property.linkTableName # ""
         THEN [S |-> SqlInsertLinkOnConflictDoNothing(found.S, property.linkTableName,
                                                      selfId, relatedEntityId),
               val |-> found.val]
         ELSE [S |-> found.S, val |-> (property.selfIdColumnName :> selfId) @@ found.val]
         : found \in {DaFindById(S, property.targetSingularCode, relatedEntityId)} })

\* "related entity is existed" / "fieldValue is id": look the entity up, then link
\* it to the owner by a link row or by the target row's foreign key.
LinkExistingEntity(S, property, selfId, relatedEntityId) ==
  Only({ IF ~found.found
         THEN [S |-> Throw(found.S, "Entity in field is not exists."), val |-> EmptyObject]
         ELSE IF property.linkTableName # ""
         THEN [S |-> SqlInsertLinkOnConflictDoNothing(found.S, property.linkTableName,
                                                      selfId, relatedEntityId),
               val |-> found.val]
         ELSE [S |-> DaUpdateById(found.S, property.targetSingularCode, found.val["id"],
                                  property.selfIdColumnName :> selfId).S,
               val |-> (property.selfIdColumnName :> selfId) @@ found.val]
         : found \in {DaFindById(S, property.targetSingularCode, relatedEntityId)} })

\* The related entity created without the INSERT into the link table.
CreateRelatedEntityWithoutLink(S, property, selfId, relatedEntityToBeSaved) ==
  createEntity(S, property.targetSingularCode,
               IF property.linkTableName = ""
               THEN (property.selfIdColumnName :> selfId) @@ relatedEntityToBeSaved.fields
               ELSE relatedEntityToBeSaved.fields)

\* "related entity is to be created": the entity carries the owner's id in its
\* foreign key when there is no link table; with a link table the link row follows.
CreateRelatedEntity(S, property, selfId, relatedEntityToBeSaved) ==
  Only({ IF Failed(created.S) THEN [S |-> created.S, val |-> EmptyObject]
         ELSE IF property.linkTableName # ""
         THEN [S |-> SqlInsertLinkOnConflictDoNothing(created.S, property.linkTableName,
                                                      selfId, created.val["id"]),
               val |-> created.val]
         ELSE created
         : created \in {createEntity(S, property.targetSingularCode,
                                     IF property.linkTableName = ""
                                     THEN (property.selfIdColumnName :> selfId)
                                            @@ relatedEntityToBeSaved.fields
                                     ELSE relatedEntityToBeSaved.fields)} })

\* One element of a many-relation value.
SaveRelatedEntity(S, property, selfId, relatedEntityToBeSaved) ==
  IF isObject(relatedEntityToBeSaved)
  THEN IF ~Truthy(IdOf(relatedEntityToBeSaved))
       THEN CreateRelatedEntity(S, property, selfId, relatedEntityToBeSaved)
       ELSE LinkExistingEntity(S, property, selfId, IdOf(relatedEntityToBeSaved))
  ELSE LinkExistingEntity(S, property, selfId, relatedEntityToBeSaved.id)

RECURSIVE SaveRelatedEntitiesBackwards(_, _, _, _, _, _)
\* The elements of a many-relation value saved from the last one to the first.
SaveRelatedEntitiesBackwards(S, property, selfId, items, j, relatedEntities) ==
  IF Failed(S) THEN [S |-> S, val |-> <<>>]
  ELSE IF j > Len(items) THEN [S |-> S, val |-> relatedEntities]
  ELSE Only({ SaveRelatedEntitiesBackwards(saved.S, property, selfId, items, j + 1,
                                           <<saved.val>> \o relatedEntities)
              : saved \in {SaveRelatedEntity(S, property, selfId,
                                             items[Len(items) + 1 - j])} })

RECURSIVE SaveRelatedEntities(_, _, _, _, _, _)
\* The elements of a many-relation value, in order, from element j on.
SaveRelatedEntities(S, property, selfId, items, j, relatedEntities) ==
  IF Failed(S) THEN [S |-> S, val |-> <<>>]
  ELSE IF j > Len(items) THEN [S |-> S, val |-> relatedEntities]
  ELSE Only({ SaveRelatedEntities(saved.S, property, selfId, items, j + 1,
                                  Append(relatedEntities, saved.val))
              : saved \in {SaveRelatedEntity(S, property, selfId, items[j])} })

RECURSIVE CreateOneRelationsOfAnyObject(_, _, _, _, _, _)
\* The one-relation step that creates every object it is given, with id or not.
CreateOneRelationsOfAnyObject(S, m, entity, codes, i, row) ==
  IF Failed(S) \/ i > Len(codes) THEN [S |-> S, row |-> row]
  ELSE IF isObject(entity[codes[i]])
  THEN Only({ IF Failed(created.S) THEN [S |-> created.S, row |-> row]
              ELSE CreateOneRelationsOfAnyObject(created.S, m, entity, codes, i + 1,
                     (findProperty(m, codes[i]).targetIdColumnName :> created.val["id"]) @@ row)
              : created \in {createEntity(S, findProperty(m, codes[i]).targetSingularCode,
                                          entity[codes[i]].fields)} })
  ELSE CreateOneRelationsOfAnyObject(S, m, entity, codes, i + 1,
         (findProperty(m, codes[i]).targetIdColumnName :> entity[codes[i]].id) @@ row)

RECURSIVE CreateOneRelations(_, _, _, _, _, _)
\* "save one-relation properties": the foreign-key columns of the row.
CreateOneRelations(S, m, entity, codes, i, row) ==
  IF Failed(S) \/ i > Len(codes) THEN [S |-> S, row |-> row]
  ELSE IF isObject(entity[codes[i]]) /\ ~Truthy(IdOf(entity[codes[i]]))
  THEN Only({ IF Failed(created.S) THEN [S |-> created.S, row |-> row]
              ELSE CreateOneRelations(created.S, m, entity, codes, i + 1,
                     (findProperty(m, codes[i]).targetIdColumnName :> created.val["id"]) @@ row)
              : created \in {createEntity(S, findProperty(m, codes[i]).targetSingularCode,
                                          entity[codes[i]].fields)} })
  ELSE CreateOneRelations(S, m, entity, codes, i + 1,
         (findProperty(m, codes[i]).targetIdColumnName :>
            IF isObject(entity[codes[i]]) THEN IdOf(entity[codes[i]]) ELSE entity[codes[i]].id)
           @@ row)

RECURSIVE CreateManyRelations(_, _, _, _, _, _)
\* "save many-relation properties" of createEntity.
CreateManyRelations(S, m, entity, codes, i, newEntity) ==
  IF Failed(S) THEN [S |-> S, val |-> EmptyObject]
  ELSE IF i > Len(codes) THEN [S |-> S, val |-> newEntity]
  ELSE IF ~isArray(entity[codes[i]])
  THEN [S |-> Throw(S, "Value of field should be an array."), val |-> EmptyObject]
  ELSE Only({ CreateManyRelations(saved.S, m, entity, codes, i + 1,
                                  (codes[i] :> saved.val) @@ newEntity)
              : saved \in {SaveRelatedEntities(S, findProperty(m, codes[i]), newEntity["id"],
                                               entity[codes[i]].items, 1, <<>>)} })

createEntity(S, m, entity) ==
  Only({ IF Failed(ones.S) THEN [S |-> ones.S, val |-> EmptyObject]
         ELSE Only({ Only({ [S |-> Leave(manys.S), val |-> manys.val]
                            : manys \in {CreateManyRelations(
                                           created.S, m, entity,
                                           RelationCodes(m, entity, "many"), 1,
                                           mapDbRowToEntity(m, created.val, FALSE))} })
                     : created \in {DaCreate(ones.S, m, ones.row)} })
         : ones \in {CreateOneRelations(Enter(S), m, entity, RelationCodes(m, entity, "one"), 1,
                                        mapEntityToDbRow(m, entity))} })

----------------------------------------------------------------------------
\* Cascading update by id

RECURSIVE UpdateManyRelationsUnlinking(_, _, _, _, _, _, _)
\* The many-relations saved with the previous targets of a relation by foreign key
\* unlinked first, as the link rows of a link-table relation are.
UpdateManyRelationsUnlinking(S, m, id, changes, codes, i, updatedEntity) ==
  IF Failed(S) THEN [S |-> S, val |-> EmptyObject]
  ELSE IF i > Len(codes) THEN [S |-> S, val |-> updatedEntity]
  ELSE IF ~isArray(changes[codes[i]])
  THEN [S |-> Throw(S, "Value of field should be an array."), val |-> EmptyObject]
  ELSE Only({ UpdateManyRelationsUnlinking(saved.S, m, id, changes, codes, i + 1,
                                           (codes[i] :> saved.val) @@ updatedEntity)
              : saved \in {SaveRelatedEntities(
                             IF findProperty(m, codes[i]).linkTableName # ""
                             THEN SqlDeleteLinksOfSelf(S, findProperty(m, codes[i]).linkTableName, id)
                             ELSE [S EXCEPT !.rows["target"] =
                                     {IF r[findProperty(m, codes[i]).selfIdColumnName] = id
                                      THEN [r EXCEPT ![findProperty(m, codes[i]).selfIdColumnName]
                                                       = NullId]
                                      ELSE r : r \in @}],
                             findProperty(m, codes[i]), id, changes[codes[i]].items, 1, <<>>)} })

RECURSIVE UpdateManyRelations(_, _, _, _, _, _, _)
\* "save many-relation properties" of updateEntityById: a link-table relation is
\* emptied for this owner first, then the elements are saved as in create.
UpdateManyRelations(S, m, id, changes, codes, i, updatedEntity) ==
  IF Failed(S) THEN [S |-> S, val |-> EmptyObject]
  ELSE IF i > Len(codes) THEN [S |-> S, val |-> updatedEntity]
  ELSE IF ~isArray(changes[codes[i]])
  THEN [S |-> Throw(S, "Value of field should be an array."), val |-> EmptyObject]
  ELSE Only({ UpdateManyRelations(saved.S, m, id, changes, codes, i + 1,
                                  (codes[i] :> saved.val) @@ updatedEntity)
              : saved \in {SaveRelatedEntities(
                             IF findProperty(m, codes[i]).linkTableName # ""
                             THEN SqlDeleteLinksOfSelf(S, findProperty(m, codes[i]).linkTableName, id)
                             ELSE S,
                             findProperty(m, codes[i]), id, changes[codes[i]].items, 1, <<>>)} })

\* The row of the changed scalar columns with the foreign key of every changed
\* one-relation: the id of the object given (undefined when it has none), or the
\* bare id.
UpdateRow(m, changes) ==
  LET codes == Range(RelationCodes(m, changes, "one"))
      fk(c) == findProperty(m, c).targetIdColumnName
      valueOf(col) ==
        LET c == CHOOSE c \in codes : fk(c) = col
        IN IF isObject(changes[c]) THEN IdOf(changes[c]) ELSE changes[c].id
  IN [col \in {fk(c) : c \in codes} |-> valueOf(col)] @@ mapEntityToDbRow(m, changes)

\* The event emitted once the columns are written, before the many-relations are
\* saved and whether or not they fail.
SaveChangesEmittingFirst(S, m, id, entity, changes, row) ==
  Only({ Only({ [S |-> manys.S, val |-> manys.val]
                : manys \in {UpdateManyRelations(
                               emitEvent(updated.S, "entity.update",
                                         [namespace |-> getModel(m).namespace,
                                          modelSingularCode |-> m, before |-> entity,
                                          after |-> updated.val @@ entity, changes |-> changes]),
                               m, id, changes, RelationCodes(m, changes, "many"), 1,
                               updated.val @@ entity)} })
         : updated \in {IF DOMAIN row # {} THEN DaUpdateById(S, m, id, row)
                        ELSE [S |-> S, val |-> row]} })

\* The many-relations saved in a transaction: a failure restores the links.
SaveChangesRollingBack(S, m, id, entity, changes, row) ==
  Only({ Only({ IF Failed(manys.S)
                THEN [S |-> [manys.S EXCEPT !.links = updated.S.links], val |-> EmptyObject]
                ELSE [S |-> emitEvent(manys.S, "entity.update",
                                      [namespace |-> getModel(m).namespace,
                                       modelSingularCode |-> m, before |-> entity,
                                       after |-> manys.val, changes |-> changes]),
                      val |-> manys.val]
                : manys \in {UpdateManyRelations(updated.S, m, id, changes,
                                                 RelationCodes(m, changes, "many"), 1,
                                                 updated.val @@ entity)} })
         : updated \in {IF DOMAIN row # {} THEN DaUpdateById(S, m, id, row)
                        ELSE [S |-> S, val |-> row]} })

\* updateEntityById once the change set is known to be non-empty: the scalar and
\* foreign-key columns, the many-relations, the event.
SaveChanges(S, m, id, entity, changes, row) ==
  Only({ Only({ IF Failed(manys.S) THEN [S |-> manys.S, val |-> EmptyObject]
                ELSE [S |-> emitEvent(manys.S, "entity.update",
                                      [namespace |-> getModel(m).namespace,
                                       modelSingularCode |-> m, before |-> entity,
                                       after |-> manys.val, changes |-> changes]),
                      val |-> manys.val]
                : manys \in {UpdateManyRelations(updated.S, m, id, changes,
                                                 RelationCodes(m, changes, "many"), 1,
                                                 updated.val @@ entity)} })
         : updated \in {IF DOMAIN row # {} THEN DaUpdateById(S, m, id, row)
                        ELSE [S |-> S, val |-> row]} })

\* updateEntityById saving entityToSave as it is given, without the diff against
\* the loaded entity.
updateEntityByIdWithoutDiff(S, m, id, entityToSave) ==
  IF ~Truthy(id)
  THEN [S |-> Throw(S, "Id is required when updating an entity."), val |-> EmptyObject]
  ELSE Only({ IF Failed(loaded.S) THEN [S |-> loaded.S, val |-> EmptyObject]
              ELSE IF ~loaded.found
              THEN [S |-> Throw(loaded.S, "was not found."), val |-> EmptyObject]
              ELSE SaveChanges(loaded.S, m, id, loaded.val, entityToSave,
                               UpdateRow(m, entityToSave))
              : loaded \in {findById(S, m, id, FALSE)} })

\* updateEntityById without the test that an id is given.
updateEntityByIdWithoutIdCheck(S, m, id, entityToSave) ==
  Only({ IF Failed(loaded.S) THEN [S |-> loaded.S, val |-> EmptyObject]
         ELSE IF ~loaded.found
         THEN [S |-> Throw(loaded.S, "was not found."), val |-> EmptyObject]
         ELSE Only({ IF DOMAIN changes = {} THEN [S |-> loaded.S, val |-> loaded.val]
                     ELSE SaveChanges(loaded.S, m, id, loaded.val, changes,
                                      UpdateRow(m, changes))
                     : changes \in {getEntityPartChanges(loaded.val, entityToSave)} })
         : loaded \in {findById(S, m, id, FALSE)} })

updateEntityById(S, m, id, entityToSave) ==
  IF ~Truthy(id)
  THEN [S |-> Throw(S, "Id is required when updating an entity."), val |-> EmptyObject]
  ELSE Only({ IF Failed(loaded.S) THEN [S |-> loaded.S, val |-> EmptyObject]
              ELSE IF ~loaded.found
              THEN [S |-> Throw(loaded.S, "was not found."), val |-> EmptyObject]
              ELSE Only({ IF DOMAIN changes = {} THEN [S |-> loaded.S, val |-> loaded.val]
                          ELSE SaveChanges(loaded.S, m, id, loaded.val, changes,
                                           UpdateRow(m, changes))
                          : changes \in {getEntityPartChanges(loaded.val, entityToSave)} })
              : loaded \in {findById(S, m, id, FALSE)} })

----------------------------------------------------------------------------
\* EntityManager

\* createEntity in a transaction: a failure restores the rows and the links.
EntityManager_createEntityRollingBack(S, m, entity) ==
  Only({ IF Failed(created.S)
         THEN [S |-> [created.S EXCEPT !.rows = S.rows, !.links = S.links], val |-> EmptyObject]
         ELSE [S |-> emitEvent(created.S, "entity.create",
                               [namespace |-> getModel(m).namespace, modelSingularCode |-> m,
                                after |-> created.val]),
               val |-> created.val]
         : created \in {createEntity(S, m, entity)} })

\* The event emitted when the request arrives, before the cascade has run.
EntityManager_createEntityEmittingFirst(S, m, entity) ==
  createEntity(emitEvent(S, "entity.create",
                         [namespace |-> getModel(m).namespace, modelSingularCode |-> m,
                          after |-> entity]),
               m, entity)

EntityManager_createEntity(S, m, entity) ==
  Only({ IF Failed(created.S) THEN created
         ELSE [S |-> emitEvent(created.S, "entity.create",
                               [namespace |-> getModel(m).namespace, modelSingularCode |-> m,
                                after |-> created.val]),
               val |-> created.val]
         : created \in {createEntity(S, m, entity)} })

EntityManager_updateEntityById(S, m, id, entityToSave) == updateEntityById(S, m, id, entityToSave)

\* deleteById loading the entity without its non-property fields.
deleteByIdOfMappedEntity(S, m, id) ==
  Only({ IF Failed(loaded.S) \/ ~loaded.found THEN [S |-> loaded.S, val |-> EmptyObject]
         ELSE [S |-> emitEvent(DaDeleteById(loaded.S, m, id), "entity.delete",
                               [namespace |-> getModel(m).namespace, modelSingularCode |-> m,
                                before |-> loaded.val]),
               val |-> EmptyObject]
         : loaded \in {findById(S, m, id, FALSE)} })

EntityManager_deleteById(S, m, id) ==
  Only({ IF Failed(loaded.S) \/ ~loaded.found THEN [S |-> loaded.S, val |-> EmptyObject]
         ELSE [S |-> emitEvent(DaDeleteById(loaded.S, m, id), "entity.delete",
                               [namespace |-> getModel(m).namespace, modelSingularCode |-> m,
                                before |-> loaded.val]),
               val |-> EmptyObject]
         : loaded \in {findById(S, m, id, TRUE)} })

RECURSIVE AddLinks(_, _, _, _, _)
\* The loop of addRelations: one guarded INSERT per relation.
AddLinks(S, relationProperty, id, relations, j) ==
  IF j > Len(relations) THEN S
  ELSE AddLinks(SqlInsertLinkWhereNotExists(S, relationProperty.linkTableName, id,
                                            IdOf(relations[j])),
                relationProperty, id, relations, j + 1)

RECURSIVE RemoveLinks(_, _, _, _, _)
\* The loop of removeRelations: one DELETE per relation.
RemoveLinks(S, relationProperty, id, relations, j) ==
  IF j > Len(relations) THEN S
  ELSE RemoveLinks(SqlDeleteLink(S, relationProperty.linkTableName, id, IdOf(relations[j])),
                   relationProperty, id, relations, j + 1)

\* The checks without the one that the property is a many-relation.
RelationsErrorOfOwnerOnly(loaded, m, property) ==
  IF Failed(loaded.S) THEN loaded.S.err
  ELSE IF ~loaded.found THEN "was not found."
  ELSE ""

\* The checks addRelations and removeRelations make before they write: the owner
\* exists, the property exists and is a many-relation.  "" when they pass.
RelationsError(loaded, m, property) ==
  IF Failed(loaded.S) THEN loaded.S.err
  ELSE IF ~loaded.found THEN "was not found."
  ELSE IF ~HasProperty(m, property) THEN "Property was not found"
  ELSE IF ~(isRelationProperty(findProperty(m, property))
            /\ findProperty(m, property).relation = "many")
  THEN "Operation is only supported on property of 'many' relation"
  ELSE ""

EntityManager_addRelations(S, m, id, property, relations) ==
  Only({ IF RelationsError(loaded, m, property) # ""
         THEN [S |-> Throw(loaded.S, RelationsError(loaded, m, property)), val |-> EmptyObject]
         ELSE [S |-> emitEvent(IF findProperty(m, property).linkTableName # ""
                               THEN AddLinks(loaded.S, findProperty(m, property), id, relations, 1)
                               ELSE loaded.S,
                               "entity.addRelations",
                               [namespace |-> getModel(m).namespace, modelSingularCode |-> m,
                                entity |-> loaded.val, property |-> property,
                                relations |-> relations]),
               val |-> EmptyObject]
         : loaded \in {findById(S, m, id, FALSE)} })

EntityManager_removeRelations(S, m, id, property, relations) ==
  Only({ IF RelationsError(loaded, m, property) # ""
         THEN [S |-> Throw(loaded.S, RelationsError(loaded, m, property)), val |-> EmptyObject]
         ELSE [S |-> emitEvent(IF findProperty(m, property).linkTableName # ""
                               THEN RemoveLinks(loaded.S, findProperty(m, property), id, relations, 1)
                               ELSE loaded.S,
                               "entity.removeRelations",
                               [namespace |-> getModel(m).namespace, modelSingularCode |-> m,
                                entity |-> loaded.val, property |-> property,
                                relations |-> relations]),
               val |-> EmptyObject]
         : loaded \in {findById(S, m, id, FALSE)} })

----------------------------------------------------------------------------
\* Session issuance (plugin authManager)

\* server.config.sessionCookieName
SessionCookieName == "session"

\* IRpdDataAccessor.findOne: the first row found, none when there is no row.
DaFindOne(S, m, filters) ==
  Only({ [S |-> r.S, found |-> Len(r.val) > 0,
          val |-> IF Len(r.val) > 0 THEN r.val[1] ELSE EmptyObject]
         : r \in {DaFind(S, m, filters, <<>>)} })

\* createJWT: the signed token stands for its payload.
createJWT(payload) == [jwt |-> payload]

\* The createSession handler.  Of the input the account is used; the value is
\* the cookies set on the response and ctx.output.
createSession_handler(S, input, now) ==
  Only({ IF ~user.found
         THEN [S |-> Throw(user.S, "Wrong account or password."),
               val |-> [cookies |-> <<>>, output |-> EmptyObject]]
         ELSE Only({ [S |-> user.S,
                      val |-> [cookies |-> <<[name |-> SessionCookieName, value |-> token,
                                              path |-> "/"]>>,
                               output |-> ("token" :> token)]]
                     : token \in {createJWT([iss |-> "authManager", sub |-> "userAccessToken",
                                             aud |-> ToString(user.val["id"]), iat |-> now,
                                             act |-> user.val["login"]])} })
         : user \in {DaFindOne(S, "oc_user", <<Leaf("login", "eq", input.account)>>)} })

----------------------------------------------------------------------------
\* Inputs

\* The logins of the users there may be, the accounts and passwords of the
\* requests (one account is the login of no user), the times of the requests.
Logins == {"a", "b"}
Accounts == Logins \cup {"c"}
Passwords == {"p", "q", "r"}
Times == {1, 2}

\* The user tables: every login has no user or one, with one of the passwords.
UserTables ==
  {UNION {held[l] : l \in Logins} :
     held \in [Logins -> {{}} \cup {{[id |-> IF l = "a" THEN 1 ELSE 2, login |-> l,
                                       password |-> p]} : l \in Logins, p \in Passwords}]}

OwnerIds == 1..MaxOwner
TargetIds == 1..MaxTarget

\* One element of a relation value: a bare id (the first or the last id of the
\* target collection), an object with an id, an object without id (to be created).
Elements ==
  {BareId(1), BareId(MaxTarget), Obj("id" :> 1)} \cup {Obj("name" :> n) : n \in TargetNames}

ManyValues == {Arr(l) : l \in UNION {[1..n -> Elements] : n \in 0..MaxLen}}

\* The entities the cascading create is given for the owner model: nothing but a
\* name, or one relation key; a many-relation is an array, or by mistake a bare id
\* or an object.
OwnerEntities ==
  {EmptyObject} \cup {"name" :> n : n \in OwnerNames}
    \cup {"one" :> v : v \in Elements}
    \cup {"fkMany" :> v : v \in ManyValues \cup {BareId(1)}}
    \cup {"linkMany" :> v : v \in ManyValues \cup {Obj("id" :> 1)}}

\* The owners the read scenarios start from: a relation key with one bare id, or
\* none.
PlainOwnerEntities ==
  {EmptyObject} \cup {"one" :> BareId(i) : i \in TargetIds}
    \cup {rel :> Arr(<<BareId(i)>>) : rel \in {"fkMany", "linkMany"}, i \in TargetIds}

\* The owners the link and update scenarios start from: no relation, or one link.
LinkedOwnerEntities ==
  {EmptyObject} \cup {"linkMany" :> Arr(<<BareId(i)>>) : i \in TargetIds}

\* The entities updateEntityById is given: a name, an owning-one value, or a
\* link-table many-relation with no target or the first one.
UpdateEntities ==
  {"name" :> n : n \in OwnerNames} \cup {"one" :> v : v \in Elements}
    \cup {"linkMany" :> Arr(l) : l \in {<<>>, <<BareId(1)>>}}

\* The lists of concurrent replacements of the links: the first target, the last
\* one.
ConcurrentLists == {<<BareId(1)>>, <<BareId(MaxTarget)>>}

\* The ids of a request that gives none: null, undefined.
MissingIds == {NullId, Undefined}

\* The entities updateEntityById is given without an id.
IdlessUpdateEntities ==
  {"name" :> n : n \in OwnerNames} \cup {"linkMany" :> Arr(<<BareId(1)>>)}

\* The entities updateEntityById is given to replace the links of an owner.
LinkUpdateEntities == {"linkMany" :> v : v \in ManyValues}

\* Embedded targets: a plain one, one with an embedded parent, one with children
\* (a new one and the first target).
NewTarget == Obj("name" :> "x")
DeepTarget == Obj(("name" :> "x") @@ ("parent" :> NewTarget))
WideTarget == Obj("children" :> Arr(<<NewTarget, BareId(1)>>))
\* The first target, given with an embedded parent.
GivenTarget == Obj(("id" :> 1) @@ ("parent" :> NewTarget))

\* The entities updateEntityById is given to replace the targets of the
\* many-relation by foreign key.
FkUpdateEntities ==
  {"fkMany" :> Arr(l) :
     l \in UNION {[1..n -> {Obj("id" :> 1), BareId(MaxTarget), NewTarget}] : n \in 0..MaxLen}}

\* Relation lists whose last element is the id of a target that does not exist.
FailingLists ==
  {Append(l, BareId(MaxTarget + 1)) : l \in UNION {[1..n -> Elements] : n \in 0..(MaxLen - 1)}}

\* The entities updateEntityById is given to rename an owner and replace its links
\* by such a list.
NamedLinkUpdateEntities ==
  {("name" :> n) @@ ("linkMany" :> Arr(l)) : n \in OwnerNames, l \in FailingLists}

TargetEntities == {"name" :> n : n \in TargetNames}

NestedOnes == {NewTarget, DeepTarget, WideTarget, GivenTarget}
NestedElements == {NewTarget, DeepTarget, BareId(1)}

\* The owners of the nesting scenarios: an owning one, alone or with one
\* many-relation list.
NestedOwnerEntities ==
  {"one" :> o : o \in NestedOnes}
    \cup {("one" :> o) @@ (rel :> Arr(l)) :
            o \in NestedOnes, rel \in {"fkMany", "linkMany"},
            l \in UNION {[1..n -> NestedElements] : n \in 1..MaxLen}}

\* relations of addRelations / removeRelations: objects carrying an id.
RelationLists == UNION {[1..n -> {Obj("id" :> i) : i \in TargetIds}] : n \in 1..MaxLen}

\* property of addRelations / removeRelations: a scalar, the three relations, a
\* code the model does not have.
PropertyCodes == {"name", "one", "fkMany", "linkMany", "nope"}

\* The entity gives a one-relation as an object without id: the foreign key of the
\* update row is undefined.
GivesUndefined(e) == "one" \in DOMAIN e /\ isObject(e["one"]) /\ IdOf(e["one"]) = Undefined

\* Filters on the target model, as nested filters of an existence filter.
TargetFilters ==
  {<<Leaf("id", "eq", i)>> : i \in TargetIds}
    \cup { <<Leaf("id", "in", <<1, MaxTarget>>)>>, <<Leaf("name", "eq", "x")>>,
           <<Leaf("owner_id", "eq", 1)>> }

ExistenceFilters ==
  {Existence(operator, field, filters) :
     operator \in {"exists", "notExists"}, field \in {"one", "fkMany", "linkMany"},
     filters \in TargetFilters}

\* Existence filters the rewriter rejects: not a relation, no such property, no
\* nested filters (an empty list, no list).
InvalidFilters ==
  { Existence("exists", "name", <<Leaf("id", "eq", 1)>>),
    Existence("exists", "nope", <<Leaf("id", "eq", 1)>>),
    Existence("notExists", "one", <<>>),
    [operator |-> "exists", field |-> "linkMany"] }

\* options.properties of a find: relations to expand, a scalar, an unknown code, a
\* one-relation without foreign key.
PropertyLists ==
  { <<"one">>, <<"fkMany">>, <<"linkMany">>, <<"name">>, <<"nope">>, <<"oneBare">>,
    <<"linkMany", "one">>, <<"one", "fkMany", "linkMany">> }

\* Filters that select the page: every owner, or the first one.
PageFilters == { <<>>, <<Leaf("id", "eq", 1)>> }

\* Existence filters on the relations that lack a column mapping.
MisconfiguredFilters ==
  {Existence("exists", field, <<Leaf("name", "eq", "x")>>) :
     field \in {"oneBare", "fkManyBare", "linkNoSelf", "linkNoTarget"}}
    \cup {Existence("notExists", "oneBare", <<Leaf("id", "eq", 1)>>)}

\* Filter lists on the owner model: a leaf, an existence filter, existence filters
\* under and/or down to depth two.
OwnerFilters ==
  { <<>>, <<Leaf("id", "eq", 1)>> }
    \cup {<<f>> : f \in ExistenceFilters \cup InvalidFilters \cup MisconfiguredFilters}
    \cup {<<Bool(operator, <<f, Leaf("id", "eq", 1)>>)>> :
            operator \in {"and", "or"},
            f \in {Existence("exists", field, <<Leaf("name", "eq", "x")>>) :
                     field \in {"one", "fkMany", "linkMany"}}}
    \cup {<<Bool("or", <<Bool("and", <<f>>), Leaf("id", "eq", MaxOwner)>>)>> :
            f \in {Existence("notExists", field, <<Leaf("id", "eq", 1)>>) :
                     field \in {"one", "fkMany", "linkMany"}}}
    \cup {<<Existence("exists", "linkMany", <<Leaf("name", "eq", "x")>>), Bool("and", <<f>>)>> :
            f \in InvalidFilters}

----------------------------------------------------------------------------
\* The handlers as actions.  A request runs one handler from the idle state; ops,
\* events, ret and pre hold what it did until its response is returned.

NoCall == [op |-> "none"]
NoRet == [ok |-> TRUE, err |-> "", val |-> EmptyObject, calls |-> 0, deepest |-> 0]
NoPre == [rows |-> [m \in Models |-> {}], links |-> (LinkTable :> EmptyObject),
          nextId |-> [m \in Models |-> 1]]

Idle == call = NoCall

\* The callers of concurrent requests, and the task of a caller without request.
Callers == {"A", "B"}
NoTask == [pc |-> "idle", id |-> NullId, items |-> <<>>, j |-> 0]

Current(u) == Store(rows, links, nextId, u)

\* One handler ran from the current store: R is what it returned and the store it
\* left.
Committed(c, R) ==
  /\ pre' = [rows |-> rows, links |-> links, nextId |-> nextId]
  /\ rows' = R.S.rows
  /\ links' = R.S.links
  /\ nextId' = R.S.nextId
  /\ call' = c
  /\ ret' = [ok |-> ~Failed(R.S), err |-> R.S.err, val |-> R.val,
             calls |-> R.S.calls, deepest |-> R.S.deepest]
  /\ ops' = R.S.ops
  /\ events' = R.S.events
  /\ UNCHANGED tasks

\* The id sequences stay within the bounds.
Ran(c, R) ==
  /\ R.S.nextId["owner"] <= MaxOwner + 1
  /\ R.S.nextId["target"] <= MaxTarget + 1
  /\ Committed(c, R)

Init ==
  /\ rows = [m \in Models |-> {}]
  /\ links = (LinkTable :> EmptyObject)
  /\ nextId = [m \in Models |-> 1]
  /\ call = NoCall
  /\ ret = NoRet
  /\ ops = <<>>
  /\ events = <<>>
  /\ pre = NoPre
  /\ tasks = [t \in Callers |-> NoTask]

\* The response is returned: the record of the request is dropped.
Return ==
  /\ ~Idle
  /\ call' = NoCall
  /\ ret' = NoRet
  /\ ops' = <<>>
  /\ events' = <<>>
  /\ pre' = NoPre
  /\ UNCHANGED <<rows, links, nextId, tasks>>

CreateOwner ==
  \E e \in OwnerEntities :
    /\ Idle
    /\ Ran([op |-> "createEntity", model |-> "owner", entity |-> e],
           EntityManager_createEntity(Current(FALSE), "owner", e))

CreatePlainOwner ==
  \E e \in PlainOwnerEntities :
    /\ Idle
    /\ Ran([op |-> "createEntity", model |-> "owner", entity |-> e],
           EntityManager_createEntity(Current(FALSE), "owner", e))

CreateLinkedOwner ==
  \E e \in LinkedOwnerEntities :
    /\ Idle
    /\ Ran([op |-> "createEntity", model |-> "owner", entity |-> e],
           EntityManager_createEntity(Current(FALSE), "owner", e))

CreateNestedOwner ==
  \E e \in NestedOwnerEntities :
    /\ Idle
    /\ nextId["owner"] <= MaxNestedOwner
    /\ \E R \in {EntityManager_createEntity(Current(FALSE), "owner", e)} :
         /\ R.S.nextId["target"] <= MaxNested + 1
         /\ Committed([op |-> "createEntity", model |-> "owner", entity |-> e], R)

CreateOwnerWithLinks ==
  \E e \in LinkUpdateEntities :
    /\ Idle
    /\ Ran([op |-> "createEntity", model |-> "owner", entity |-> e],
           EntityManager_createEntity(Current(FALSE), "owner", e))

CreateTarget ==
  \E e \in TargetEntities :
    /\ Idle
    /\ Ran([op |-> "createEntity", model |-> "target", entity |-> e],
           EntityManager_createEntity(Current(FALSE), "target", e))

FindOwners ==
  \E filters \in OwnerFilters :
    /\ Idle
    /\ Ran([op |-> "findEntities", model |-> "owner", filters |-> filters,
            properties |-> <<>>],
           findEntities(Current(FALSE), "owner",
                        [filters |-> filters, properties |-> <<>>,
                         keepNonPropertyFields |-> FALSE]))

\* Queries whose existence filter has an existence filter on a relation of the
\* target model among its nested filters, alone or after a leaf.
FindOwnersNested ==
  \E operator \in {"exists", "notExists"}, field \in {"one", "fkMany", "linkMany"},
     inner \in {"parent", "children"}, leaves \in {<<>>, <<Leaf("name", "eq", "x")>>} :
    /\ Idle
    /\ \E filters \in {<<Existence(operator, field,
                                   leaves \o <<Existence("exists", inner,
                                                         <<Leaf("name", "eq", "x")>>)>>)>>} :
         Ran([op |-> "findEntities", model |-> "owner", filters |-> filters,
              properties |-> <<>>],
             findEntities(Current(FALSE), "owner",
                          [filters |-> filters, properties |-> <<>>,
                           keepNonPropertyFields |-> FALSE]))

FindOwnersWith ==
  \E filters \in PageFilters, properties \in PropertyLists :
    /\ Idle
    /\ Ran([op |-> "findEntities", model |-> "owner", filters |-> filters,
            properties |-> properties],
           findEntities(Current(FALSE), "owner",
                        [filters |-> filters, properties |-> properties,
                         keepNonPropertyFields |-> FALSE]))

UpdateOwner ==
  \E id \in OwnerIds, e \in UpdateEntities, u \in BOOLEAN :
    /\ Idle
    /\ u => GivesUndefined(e)
    /\ Ran([op |-> "updateEntityById", model |-> "owner", id |-> id, entity |-> e,
            undefinedAsNull |-> u],
           EntityManager_updateEntityById(Current(u), "owner", id, e))

UpdateWithoutId ==
  \E id \in MissingIds, e \in IdlessUpdateEntities :
    /\ Idle
    /\ Ran([op |-> "updateEntityById", model |-> "owner", id |-> id, entity |-> e,
            undefinedAsNull |-> FALSE],
           EntityManager_updateEntityById(Current(FALSE), "owner", id, e))

ReplaceLinks ==
  \E id \in OwnerIds, e \in LinkUpdateEntities :
    /\ Idle
    /\ Ran([op |-> "updateEntityById", model |-> "owner", id |-> id, entity |-> e,
            undefinedAsNull |-> FALSE],
           EntityManager_updateEntityById(Current(FALSE), "owner", id, e))

ReplaceFkMany ==
  \E id \in OwnerIds, e \in FkUpdateEntities :
    /\ Idle
    /\ Ran([op |-> "updateEntityById", model |-> "owner", id |-> id, entity |-> e,
            undefinedAsNull |-> FALSE],
           EntityManager_updateEntityById(Current(FALSE), "owner", id, e))

ReplaceLinksAndName ==
  \E id \in OwnerIds, e \in NamedLinkUpdateEntities :
    /\ Idle
    /\ Ran([op |-> "updateEntityById", model |-> "owner", id |-> id, entity |-> e,
            undefinedAsNull |-> FALSE],
           EntityManager_updateEntityById(Current(FALSE), "owner", id, e))

DeleteById ==
  \E m \in Models, id \in TargetIds :
    /\ Idle
    /\ Ran([op |-> "deleteById", model |-> m, id |-> id],
           EntityManager_deleteById(Current(FALSE), m, id))

AddRelations ==
  \E id \in OwnerIds, rs \in RelationLists :
    /\ Idle
    /\ Ran([op |-> "addRelations", model |-> "owner", id |-> id, property |-> "linkMany",
            relations |-> rs],
           EntityManager_addRelations(Current(FALSE), "owner", id, "linkMany", rs))

RemoveRelations ==
  \E id \in OwnerIds, rs \in RelationLists :
    /\ Idle
    /\ Ran([op |-> "removeRelations", model |-> "owner", id |-> id, property |-> "linkMany",
            relations |-> rs],
           EntityManager_removeRelations(Current(FALSE), "owner", id, "linkMany", rs))

AddRelationsToProperty ==
  \E id \in OwnerIds, property \in PropertyCodes :
    /\ Idle
    /\ Ran([op |-> "addRelations", model |-> "owner", id |-> id, property |-> property,
            relations |-> <<Obj("id" :> 1)>>],
           EntityManager_addRelations(Current(FALSE), "owner", id, property, <<Obj("id" :> 1)>>))

RemoveRelationsFromProperty ==
  \E id \in OwnerIds, property \in PropertyCodes :
    /\ Idle
    /\ Ran([op |-> "removeRelations", model |-> "owner", id |-> id, property |-> property,
            relations |-> <<Obj("id" :> 1)>>],
           EntityManager_removeRelations(Current(FALSE), "owner", id, property, <<Obj("id" :> 1)>>))

\* POST of the session route: the handler runs on the input of the request.
CreateSession ==
  \E account \in Accounts, password \in Passwords, now \in Times :
    /\ Idle
    /\ Committed([op |-> "createSession", account |-> account, password |-> password],
                 createSession_handler(Current(FALSE),
                                       [account |-> account, password |-> password], now))

----------------------------------------------------------------------------
\* updateEntityById({id, entityToSave: {linkMany: items}}) as a task of a caller:
\* every action is one awaited storage operation with the code up to the next
\* await.  The tasks of the callers interleave between the operations.

\* The storage operation of a task left the store S; the task goes on as next.
Stepped(t, S, next) ==
  /\ Idle
  /\ rows' = S.rows
  /\ links' = S.links
  /\ nextId' = S.nextId
  /\ tasks' = [tasks EXCEPT ![t] = next]
  /\ UNCHANGED <<call, ret, ops, events, pre>>

\* The request arrives; the id is given.
BeginUpdate(t) ==
  \E id \in OwnerIds, items \in ConcurrentLists :
    /\ tasks[t].pc = "idle"
    /\ Truthy(id)
    /\ Stepped(t, Current(FALSE), [pc |-> "load", id |-> id, items |-> items, j |-> 1])

\* await findById; the entity must exist.  The change set is the many-relation,
\* which changes no column, so that no updateById follows.
LoadEntity(t) ==
  /\ tasks[t].pc = "load"
  /\ \E loaded \in {findById(Current(FALSE), "owner", tasks[t].id, FALSE)} :
       Stepped(t, loaded.S,
               [tasks[t] EXCEPT !.pc = IF loaded.found
                                            /\ DOMAIN UpdateRow("owner",
                                                 getEntityPartChanges(loaded.val,
                                                   "linkMany" :> Arr(tasks[t].items))) = {}
                                       THEN "delete" ELSE "failed"])

\* The task goes on without the DELETE of the owner's link rows.
SkipDeleteLinks(t) ==
  /\ tasks[t].pc = "delete"
  /\ Stepped(t, Current(FALSE),
             [tasks[t] EXCEPT !.pc = IF tasks[t].items = <<>> THEN "done" ELSE "find"])

\* await DELETE of the owner's link rows; with no element to save the event is
\* emitted and the call returns.
DeleteLinks(t) ==
  /\ tasks[t].pc = "delete"
  /\ Stepped(t, SqlDeleteLinksOfSelf(Current(FALSE),
                                     findProperty("owner", "linkMany").linkTableName,
                                     tasks[t].id),
             [tasks[t] EXCEPT !.pc = IF tasks[t].items = <<>> THEN "done" ELSE "find"])

\* await targetDataAccessor.findById of element j; the target must exist.
FindRelated(t) ==
  /\ tasks[t].pc = "find"
  /\ \E found \in {DaFindById(Current(FALSE), "target", tasks[t].items[tasks[t].j].id)} :
       Stepped(t, found.S, [tasks[t] EXCEPT !.pc = IF found.found THEN "insert" ELSE "failed"])

\* await INSERT of the link row of element j; after the last element the event is
\* emitted and the call returns.
InsertLink(t) ==
  /\ tasks[t].pc = "insert"
  /\ Stepped(t, SqlInsertLinkOnConflictDoNothing(
                  Current(FALSE), findProperty("owner", "linkMany").linkTableName,
                  tasks[t].id, tasks[t].items[tasks[t].j].id),
             [tasks[t] EXCEPT !.j = @ + 1,
                              !.pc = IF tasks[t].j = Len(tasks[t].items) THEN "done"
                                     ELSE "find"])

\* The caller has its response or its error.
Respond(t) ==
  /\ tasks[t].pc \in {"done", "failed"}
  /\ Stepped(t, Current(FALSE), NoTask)

\* EntityManager.deleteById(id) as a task of a caller, with its two awaits.

\* The request arrives.
BeginDelete(t) ==
  \E id \in TargetIds :
    /\ tasks[t].pc = "idle"
    /\ Stepped(t, Current(FALSE), [pc |-> "check", id |-> id, items |-> <<>>, j |-> 0])

\* await findById(id, true); without an entity the call returns.
CheckEntity(t) ==
  /\ tasks[t].pc = "check"
  /\ \E loaded \in {findById(Current(FALSE), "target", tasks[t].id, TRUE)} :
       Stepped(t, loaded.S,
               IF loaded.found
               THEN [pc |-> "remove", id |-> tasks[t].id, items |-> <<loaded.val>>, j |-> 0]
               ELSE [tasks[t] EXCEPT !.pc = "done"])

\* await dataAccessor.deleteById(id); the event is emitted with the entity that
\* was loaded and the call returns.  The events of the tasks are appended to
\* those emitted since the last request was recorded.
RemoveEntity(t) ==
  /\ tasks[t].pc = "remove"
  /\ Idle
  /\ \E S \in {emitEvent(DaDeleteById(Current(FALSE), "target", tasks[t].id), "entity.delete",
                          [namespace |-> getModel("target").namespace,
                           modelSingularCode |-> "target",
                           before |-> tasks[t].items[1]])} :
       /\ rows' = S.rows
       /\ links' = S.links
       /\ nextId' = S.nextId
       /\ events' = events \o S.events
  /\ tasks' = [tasks EXCEPT ![t] = [pc |-> "done", id |-> tasks[t].id, items |-> <<>>, j |-> 0]]
  /\ UNCHANGED <<call, ret, ops, pre>>

BeginDeletes == \E t \in Callers : BeginDelete(t)
CheckEntities == \E t \in Callers : CheckEntity(t)
RemoveEntities == \E t \in Callers : RemoveEntity(t)
BeginUpdates == \E t \in Callers : BeginUpdate(t)
LoadEntities == \E t \in Callers : LoadEntity(t)
DeleteLinksOfOwner == \E t \in Callers : DeleteLinks(t)
FindRelatedEntity == \E t \in Callers : FindRelated(t)
InsertLinks == \E t \in Callers : InsertLink(t)
Responds == \E t \in Callers : Respond(t)

\* Reads: owners and targets are created, owners are queried with relation filters.
NextFind ==
  \/ CreatePlainOwner
  \/ CreateTarget
  \/ FindOwners
  \/ Return

SpecFind == Init /\ [][NextFind]_vars

\* Reads with existence filters nested in existence filters.
NextFindNested ==
  \/ CreatePlainOwner
  \/ CreateTarget
  \/ FindOwnersNested
  \/ Return

SpecFindNested == Init /\ [][NextFindNested]_vars

\* Reads with relation properties to expand.
NextExpand ==
  \/ CreatePlainOwner
  \/ CreateTarget
  \/ FindOwnersWith
  \/ Return

SpecExpand == Init /\ [][NextExpand]_vars

\* Reads with relation properties to expand, of a store where entities are deleted.
NextExpandDeleted ==
  \/ CreatePlainOwner
  \/ CreateTarget
  \/ DeleteById
  \/ FindOwnersWith
  \/ Return

SpecExpandDeleted == Init /\ [][NextExpandDeleted]_vars

\* Cascading create.
NextCreate ==
  \/ CreateOwner
  \/ CreateTarget
  \/ Return

SpecCreate == Init /\ [][NextCreate]_vars

\* Cascading create of nested embedded objects.
NextNested ==
  \/ CreateNestedOwner
  \/ CreateTarget
  \/ Return

SpecNested == Init /\ [][NextNested]_vars

\* Link maintenance.
NextRelations ==
  \/ CreateLinkedOwner
  \/ CreateTarget
  \/ AddRelations
  \/ RemoveRelations
  \/ Return

SpecRelations == Init /\ [][NextRelations]_vars

\* Link maintenance requested on any property.
NextRelationsOfProperty ==
  \/ CreateLinkedOwner
  \/ CreateTarget
  \/ AddRelationsToProperty
  \/ RemoveRelationsFromProperty
  \/ Return

SpecRelationsOfProperty == Init /\ [][NextRelationsOfProperty]_vars

\* Delete by id.
NextDelete ==
  \/ CreatePlainOwner
  \/ CreateTarget
  \/ DeleteById
  \/ Return

SpecDelete == Init /\ [][NextDelete]_vars

\* Cascading update of scalar and owning-one fields.
NextUpdate ==
  \/ CreateLinkedOwner
  \/ CreateTarget
  \/ UpdateOwner
  \/ UpdateWithoutId
  \/ Return

SpecUpdate == Init /\ [][NextUpdate]_vars

\* Cascading update of a link-table many-relation.
NextReplace ==
  \/ CreateLinkedOwner
  \/ CreateTarget
  \/ ReplaceLinks
  \/ Return

SpecReplace == Init /\ [][NextReplace]_vars

\* Cascading update of a many-relation by foreign key.
NextReplaceFk ==
  \/ CreateLinkedOwner
  \/ CreateTarget
  \/ ReplaceFkMany
  \/ Return

SpecReplaceFk == Init /\ [][NextReplaceFk]_vars

\* Every cascade that inserts link rows.
NextLinks ==
  \/ CreateOwnerWithLinks
  \/ CreateTarget
  \/ ReplaceLinks
  \/ AddRelationsToProperty
  \/ Return

SpecLinks == Init /\ [][NextLinks]_vars

\* Every operation that writes or leaves link rows, deleteById included.
NextIntegrity ==
  \/ CreateOwnerWithLinks
  \/ CreateTarget
  \/ ReplaceLinks
  \/ AddRelationsToProperty
  \/ RemoveRelationsFromProperty
  \/ DeleteById
  \/ Return

SpecIntegrity == Init /\ [][NextIntegrity]_vars

\* Concurrent replacements of a link-table many-relation.
NextConcurrent ==
  \/ CreateLinkedOwner
  \/ CreateTarget
  \/ Return
  \/ BeginUpdates
  \/ LoadEntities
  \/ DeleteLinksOfOwner
  \/ FindRelatedEntity
  \/ InsertLinks
  \/ Responds

SpecConcurrent == Init /\ [][NextConcurrent]_vars

\* Concurrent deletions of targets.
NextConcurrentDelete ==
  \/ CreateTarget
  \/ Return
  \/ BeginDeletes
  \/ CheckEntities
  \/ RemoveEntities
  \/ Responds

SpecConcurrentDelete == Init /\ [][NextConcurrentDelete]_vars

\* Cascading update of a scalar field together with a link-table many-relation.
NextReplaceNamed ==
  \/ CreateLinkedOwner
  \/ CreateTarget
  \/ ReplaceLinksAndName
  \/ Return

SpecReplaceNamed == Init /\ [][NextReplaceNamed]_vars

\* Session issuance: the users are there from the start.
InitSession ==
  /\ rows \in {("oc_user" :> users) : users \in UserTables}
  /\ links = (LinkTable :> EmptyObject)
  /\ nextId = ("oc_user" :> 3)
  /\ call = NoCall
  /\ ret = NoRet
  /\ ops = <<>>
  /\ events = <<>>
  /\ pre = NoPre
  /\ tasks = [t \in Callers |-> NoTask]

NextSession ==
  \/ CreateSession
  \/ Return

SpecSession == InitSession /\ [][NextSession]_vars

----------------------------------------------------------------------------
\* Properties of the filter rewriter (SpecFind)

\* The ids of a set of rows.
Ids(set) == {r["id"] : r \in set}

\* The store the running request started from.
PreStore == Store(pre.rows, pre.links, pre.nextId, FALSE)

RECURSIVE HasExistence(_)
\* Some node of the filter list, at any depth, is an existence filter.
HasExistence(filters) ==
  \E i \in DOMAIN filters :
    \/ filters[i].operator \in {"exists", "notExists"}
    \/ /\ filters[i].operator \in {"and", "or"}
       /\ HasExistence(filters[i].filters)

\* The filters the last storage operation of the request was given.
QueriedFilters == ops[Len(ops)].filters

\* C1: whenever replaceFiltersWithFiltersOperator returns without error, the
\* filter tree it returns, which findEntities hands to the accessor of the
\* base collection, has no exists or notExists node at any depth.
C1_RewrittenHasNoExistence ==
  (call.op = "findEntities" /\ ret.ok) =>
    /\ ~HasExistence(replaceFiltersWithFiltersOperator(PreStore, "owner", call.filters).val)
    /\ ops[Len(ops)].op = "find"
    /\ ops[Len(ops)].model = "owner"
    /\ ~HasExistence(QueriedFilters)

\* A query with an existence filter two levels below an or node returned owners.
C1_Witness ==
  /\ call.op = "findEntities"
  /\ ret.ok
  /\ Len(ret.val) > 0
  /\ \E i \in DOMAIN call.filters :
       /\ call.filters[i].operator = "or"
       /\ \E j \in DOMAIN call.filters[i].filters :
            /\ call.filters[i].filters[j].operator = "and"
            /\ HasExistence(call.filters[i].filters[j].filters)

\* The ids of the owner rows of a store that a filter list selects.
SelectedOwners(S, filters) == {r["id"] : r \in {q \in S.rows["owner"] : MatchesAll(q, filters)}}

\* The request is a query by exists on the one-relation with the single nested
\* filter {id eq v}.
IsExistsByIdEq(v) ==
  /\ call.op = "findEntities"
  /\ call.filters = <<Existence("exists", "one", <<Leaf("id", "eq", v)>>)>>

\* C2: for an exists filter on a one-relation whose only nested filter is
\* {id eq v}, the owners the query returns (selected by the short-circuit leaf)
\* are the owners the general subquery path selects, in every store and for
\* every v.
C2_ShortCircuitSelectsAsSubquery ==
  \A v \in TargetIds :
    IsExistsByIdEq(v) =>
      /\ ret.ok
      /\ {ret.val[i]["id"] : i \in DOMAIN ret.val}
           = SelectedOwners(PreStore,
                            OneRelationSubquery(PreStore, call.filters[1],
                                                findProperty("owner", "one")).val)

\* What a storage operation is: the statement on a link table, or the accessor
\* call on a collection.
Kind(o) == IF o.op = "sql" THEN <<o.stmt, o.table>> ELSE <<o.op, o.model>>

RECURSIVE ExpansionQueries(_, _)
\* The queries that expand the relation properties among the requested ones, from
\* property i on: the link rows and the targets of a many-relation with link
\* table, the targets of a many-relation by foreign key or of an owning one.
ExpansionQueries(properties, i) ==
  IF i > Len(properties) THEN <<>>
  ELSE (CASE ~isRelationProperty(findProperty("owner", properties[i])) -> <<>>
          [] findProperty("owner", properties[i]).linkTableName # "" ->
               << <<"SELECT", findProperty("owner", properties[i]).linkTableName>>,
                  <<"find", "target">> >>
          [] OTHER -> << <<"find", "target">> >>)
       \o ExpansionQueries(properties, i + 1)

\* C19: a findEntities that returns a page issues, after the queries of the
\* filter rewrite and the find of the base collection, for every requested
\* relation property the same queries whatever the number of rows of the page and
\* of related rows: two for a link-table many-relation (link rows, targets), one
\* for an FK many-relation, one for an owning one; an empty page issues none.
C19_ExpansionQueriesConstant ==
  (call.op = "findEntities" /\ ret.ok) =>
    LET rewrite == replaceFiltersWithFiltersOperator(PreStore, "owner", call.filters).S.ops
        base == Len(rewrite) + 1
    IN /\ Len(ops) >= base
       /\ SubSeq(ops, 1, Len(rewrite)) = rewrite
       /\ Kind(ops[base]) = <<"find", "owner">>
       /\ [i \in 1..(Len(ops) - base) |-> Kind(ops[base + i])]
            = IF Len(ret.val) = 0 THEN <<>> ELSE ExpansionQueries(call.properties, 1)

\* A page of two owners, each with links, was returned with its link-table
\* many-relation expanded by two queries.
C19_Witness ==
  /\ call.op = "findEntities"
  /\ ret.ok
  /\ call.properties = <<"linkMany">>
  /\ Len(ret.val) = 2
  /\ \A i \in 1..2 : Len(ret.val[i]["linkMany"]) > 0
  /\ Len(ops) = 3

\* C23: after a findEntities that requests the link-table many-relation, every
\* returned row carries under the property an array of target entities: each
\* element is the entity of a target that exists and is linked to the row, every
\* target linked to the row appears once for each of its link rows, and a row
\* without link rows carries the empty array.
C23_ExpandedLinksAreLinkedTargets ==
  (call.op = "findEntities" /\ ret.ok /\ "linkMany" \in Range(call.properties)) =>
    \A i \in DOMAIN ret.val :
      LET related == ret.val[i]["linkMany"]
          linked == {p \in DOMAIN pre.links[LinkTable] : p[1] = ret.val[i]["id"]}
      IN /\ \A k \in DOMAIN related :
              /\ "id" \in DOMAIN related[k]
              /\ <<ret.val[i]["id"], related[k]["id"]>> \in linked
              /\ \E t \in pre.rows["target"] :
                   related[k] = mapDbRowToEntity("target", t, FALSE)
         /\ \A p \in linked :
              Cardinality({k \in DOMAIN related :
                             "id" \in DOMAIN related[k] /\ related[k]["id"] = p[2]})
                = LinkCount(pre.links[LinkTable], p)
         /\ Len(related) = Cardinality(linked)

RECURSIVE HasInvalidExistence(_)
\* Some existence filter of the list, at any depth, names no property of the owner
\* model, names a property that is no relation, or has no nested filter.
HasInvalidExistence(filters) ==
  \E i \in DOMAIN filters :
    \/ /\ filters[i].operator \in {"exists", "notExists"}
       /\ \/ ~HasProperty("owner", filters[i].field)
          \/ ~isRelationProperty(findProperty("owner", filters[i].field))
          \/ "filters" \notin DOMAIN filters[i]
          \/ filters[i].filters = <<>>
    \/ /\ filters[i].operator \in {"and", "or"}
       /\ HasInvalidExistence(filters[i].filters)

\* C14: findEntities with an existence filter, at any depth, on an unknown
\* property, on a non-relation property or without nested filters fails with the
\* rewriter's error; no find is issued on the base collection, and the storage
\* operations issued are those of one run of the rewriter, none of them twice.
C14_InvalidExistenceFailsBeforeFind ==
  (call.op = "findEntities" /\ HasInvalidExistence(call.filters)) =>
    /\ ~ret.ok
    /\ ret.err \in {"Invalid filters. Property was not found",
                    "Invalid filters. Existence operator on a non-relation property",
                    "Invalid filters. 'filters' must be provided"}
    /\ \A i \in DOMAIN ops : ~(ops[i].op = "find" /\ ops[i].model = "owner")
    /\ ops = replaceFiltersWithFiltersOperator(PreStore, "owner", call.filters).S.ops
    /\ Len(ops) <= 2
    /\ rows = pre.rows
    /\ links = pre.links

\* A query failed on an invalid existence filter under an and node after a valid
\* existence filter had queried the targets and the links.
C14_Witness ==
  /\ call.op = "findEntities"
  /\ HasInvalidExistence(call.filters)
  /\ ~ret.ok
  /\ Len(call.filters) = 2
  /\ Len(ops) = 2
  /\ pre.rows["owner"] # {}

\* The request is a query by one existence filter on a many-relation that has its
\* columns.
IsManyExistence ==
  /\ call.op = "findEntities"
  /\ Len(call.filters) = 1
  /\ call.filters[1].operator \in {"exists", "notExists"}
  /\ call.filters[1].field \in {"fkMany", "linkMany"}
  /\ "filters" \in DOMAIN call.filters[1]
  /\ call.filters[1].filters # <<>>

\* The targets related to an owner by the many-relation of the request that
\* satisfy its nested filters, in the store the request started from.
MatchingRelated(o) ==
  {t \in pre.rows["target"] :
     /\ MatchesAll(t, call.filters[1].filters)
     /\ IF call.filters[1].field = "fkMany" THEN t["owner_id"] = o["id"]
        ELSE LinkCount(pre.links[LinkTable], <<o["id"], t["id"]>>) > 0}

\* The self ids the rewrite collects: the foreign keys of the matching targets, or
\* the self ids of the link rows whose target is a matching target.
CollectedSelfIds ==
  LET matching == {t \in pre.rows["target"] : MatchesAll(t, call.filters[1].filters)}
  IN IF call.filters[1].field = "fkMany" THEN {t["owner_id"] : t \in matching}
     ELSE {p[1] : p \in {q \in DOMAIN pre.links[LinkTable] : q[2] \in Ids(matching)}}

\* C22: an exists filter on a many-relation (by foreign key or by link table) is
\* rewritten to the leaf {id in ids} and a notExists filter to {id notIn ids},
\* ids being the self ids collected from the matching targets or from their link
\* rows; the query then returns exactly the owners with at least one related
\* target that satisfies the nested filters, respectively exactly those with none.
C22_ManyExistenceSelectsExactly ==
  IsManyExistence =>
    /\ ret.ok
    /\ Len(QueriedFilters) = 1
    /\ QueriedFilters[1].field = "id"
    /\ QueriedFilters[1].operator = (IF call.filters[1].operator = "exists" THEN "in" ELSE "notIn")
    /\ Range(QueriedFilters[1].value) = CollectedSelfIds
    /\ {ret.val[i]["id"] : i \in DOMAIN ret.val}
         = {o["id"] : o \in {q \in pre.rows["owner"] :
                               (MatchingRelated(q) # {}) <=> (call.filters[1].operator = "exists")}}

\* A notExists on the link-table relation returned an owner while another owner
\* has a related target that satisfies the nested filters.
C22_Witness ==
  /\ IsManyExistence
  /\ call.filters[1].operator = "notExists"
  /\ call.filters[1].field = "linkMany"
  /\ Len(ret.val) = 1
  /\ Cardinality(pre.rows["owner"]) = 2
  /\ \E o \in pre.rows["owner"] : MatchingRelated(o) # {}

\* C26: every filter list findEntities hands to a find of a Data Accessor, of the
\* base model or of the target model of a relation, has no exists or notExists
\* node at any depth: the nested filters of an existence filter are rewritten
\* before the target collection is queried with them.
C26_NoExistenceReachesAccessor ==
  call.op = "findEntities" =>
    \A i \in DOMAIN ops : ops[i].op = "find" => ~HasExistence(ops[i].filters)

\* The relation property lacks a column its storage strategy requires.
LacksColumn(p) ==
  CASE p.relation = "one" -> p.targetIdColumnName = ""
    [] p.relation = "many" /\ p.linkTableName = "" -> p.selfIdColumnName = ""
    [] p.relation = "many" /\ p.linkTableName # "" ->
         p.selfIdColumnName = "" \/ p.targetIdColumnName = ""
    [] OTHER -> FALSE

RECURSIVE HasUndefinedField(_)
\* Some leaf of the filter list, at any depth, has an undefined field.
HasUndefinedField(filters) ==
  \E i \in DOMAIN filters :
    IF filters[i].operator \in {"and", "or"} THEN HasUndefinedField(filters[i].filters)
    ELSE filters[i].field = ""

\* C15: the rewrite of an existence filter on a relation property that lacks a
\* required column (targetIdColumnName of a one-relation, selfIdColumnName of an
\* FK many-relation, selfIdColumnName or targetIdColumnName of a link-table
\* many-relation) raises a configuration error, and no rewrite returns a leaf
\* whose field is undefined.
C15_MissingColumnRaises ==
  call.op = "findEntities" =>
    /\ \A i \in DOMAIN call.filters :
         (/\ call.filters[i].operator \in {"exists", "notExists"}
          /\ HasProperty("owner", call.filters[i].field)
          /\ LacksColumn(findProperty("owner", call.filters[i].field)))
         => /\ ~ret.ok
            /\ ret.err \in {"selfIdColumnName was not configured",
                            "targetIdColumnName was not configured"}
    /\ ~HasUndefinedField(replaceFiltersWithFiltersOperator(PreStore, "owner", call.filters).val)

----------------------------------------------------------------------------
\* Properties of the cascading create (SpecCreate)

\* An element of a relation value that is to be created: an object without id.
IsNew(v) == isObject(v) /\ ~Truthy(IdOf(v))

\* The id an element that is not to be created refers to.
GivenId(v) == IF isObject(v) THEN IdOf(v) ELSE v.id

\* The request is a createEntity of an owner with the given relation key.
CreatesOwnerWith(code) ==
  /\ call.op = "createEntity"
  /\ call.model = "owner"
  /\ code \in DOMAIN call.entity

\* The link rows the request added: for every pair, the rows now minus the rows
\* before.
AddedLinks(p) == LinkCount(links[LinkTable], p) - LinkCount(pre.links[LinkTable], p)

LinkPairs == DOMAIN links[LinkTable] \cup DOMAIN pre.links[LinkTable]

\* C3: createEntity with a link-table many-relation given as n objects without
\* id returns an entity whose relation array has n elements with n distinct
\* newly assigned ids, and leaves exactly n new target rows and exactly the n new
\* link rows (new owner id, new target id).
C3_EmbeddedLinkManyCreatesAll ==
  (CreatesOwnerWith("linkMany") /\ isArray(call.entity["linkMany"])
     /\ \A j \in DOMAIN call.entity["linkMany"].items : IsNew(call.entity["linkMany"].items[j]))
  => /\ ret.ok
     /\ LET n == Len(call.entity["linkMany"].items)
            related == ret.val["linkMany"]
            newIds == {related[j]["id"] : j \in DOMAIN related}
        IN /\ Len(related) = n
           /\ Cardinality(newIds) = n
           /\ newIds \cap Ids(pre.rows["target"]) = {}
           /\ pre.rows["target"] \subseteq rows["target"]
           /\ Ids(rows["target"] \ pre.rows["target"]) = newIds
           /\ Cardinality(rows["target"]) = Cardinality(pre.rows["target"]) + n
           /\ ret.val["id"] \notin Ids(pre.rows["owner"])
           /\ \A p \in LinkPairs \cup {<<ret.val["id"], t>> : t \in newIds} :
                AddedLinks(p) = IF p[1] = ret.val["id"] /\ p[2] \in newIds THEN 1 ELSE 0

\* A second owner was created with two embedded objects.
C3_Witness ==
  /\ CreatesOwnerWith("linkMany")
  /\ isArray(call.entity["linkMany"])
  /\ Len(call.entity["linkMany"].items) = 2
  /\ \A j \in 1..2 : IsNew(call.entity["linkMany"].items[j])
  /\ ret.ok
  /\ pre.rows["owner"] # {}
  /\ Cardinality(DOMAIN links[LinkTable]) >= 2

\* C4: a successful createEntity with an FK many-relation persists the owner
\* row, and for every element of the list (an object to create, an object with
\* id, a bare id) the persisted target row has selfIdColumnName equal to the new
\* owner's id; the returned relation array holds those targets with that owner id.
C4_FkManyTargetsCarryOwnerId ==
  (CreatesOwnerWith("fkMany") /\ ret.ok) =>
    LET items == call.entity["fkMany"].items
        related == ret.val["fkMany"]
        owner == ret.val["id"]
    IN /\ owner \notin Ids(pre.rows["owner"])
       /\ owner \in Ids(rows["owner"])
       /\ Len(related) = Len(items)
       /\ \A j \in DOMAIN items :
            /\ related[j]["owner_id"] = owner
            /\ \E r \in rows["target"] : r["id"] = related[j]["id"] /\ r["owner_id"] = owner
            /\ IF IsNew(items[j]) THEN related[j]["id"] \notin Ids(pre.rows["target"])
               ELSE related[j]["id"] = GivenId(items[j])

\* An owner was created with a new object and an existing target of another owner.
C4_Witness ==
  /\ CreatesOwnerWith("fkMany")
  /\ ret.ok
  /\ Len(call.entity["fkMany"].items) = 2
  /\ \E j \in 1..2 : IsNew(call.entity["fkMany"].items[j])
  /\ \E j \in 1..2 :
       /\ ~IsNew(call.entity["fkMany"].items[j])
       /\ \E r \in pre.rows["target"] :
            /\ r["id"] = GivenId(call.entity["fkMany"].items[j])
            /\ r["owner_id"] \notin {NullId, ret.val["id"]}

\* The positions in ops of the creates of target rows.
CreatesOfTargets == {i \in DOMAIN ops : ops[i].op = "create" /\ ops[i].model = "target"}

\* C17: a createEntity that fails in its many-relation step (an element's id
\* names no target, the value is no array) returns the error and emits no event,
\* and everything written before the failure stays: the owner row, the target
\* rows created for earlier elements, the link rows inserted and the foreign keys
\* set for them.
C17_FailedCreateKeepsWrites ==
  (call.op = "createEntity" /\ call.model = "owner" /\ ~ret.ok
     /\ DOMAIN call.entity \cap {"fkMany", "linkMany"} # {}) =>
    /\ ret.err \in {"Entity in field is not exists.", "Value of field should be an array."}
    /\ events = <<>>
    /\ Ids(rows["owner"]) = Ids(pre.rows["owner"]) \cup {pre.nextId["owner"]}
    /\ Ids(pre.rows["target"]) \subseteq Ids(rows["target"])
    /\ Cardinality(rows["target"]) = Cardinality(pre.rows["target"]) + Cardinality(CreatesOfTargets)
    /\ \A p \in DOMAIN pre.links[LinkTable] : LinkCount(links[LinkTable], p) > 0
    /\ \A i \in DOMAIN ops :
         /\ (ops[i].op = "sql" /\ ops[i].stmt = "INSERT") =>
              /\ ops[i].self = pre.nextId["owner"]
              /\ LinkCount(links[LinkTable], <<ops[i].self, ops[i].target>>) = 1
         /\ (ops[i].op = "updateById") =>
              \E r \in rows["target"] :
                r["id"] = ops[i].id /\ r["owner_id"] = pre.nextId["owner"]

\* A create failed on its second element after the first had been created and
\* linked.
C17_Witness ==
  /\ CreatesOwnerWith("linkMany")
  /\ ~ret.ok
  /\ ret.err = "Entity in field is not exists."
  /\ CreatesOfTargets # {}
  /\ links # pre.links
  /\ rows["owner"] # pre.rows["owner"]

----------------------------------------------------------------------------
\* Properties of the cascading create of nested objects (SpecNested)

RECURSIVE NewObjects(_)
\* The embedded objects without id among the relation values of a target object
\* that is to be created, at every nesting level below it.
NewObjects(fields) ==
  (IF "parent" \in DOMAIN fields /\ IsNew(fields["parent"])
   THEN 1 + NewObjects(fields["parent"].fields) ELSE 0)
  + (IF "children" \in DOMAIN fields /\ isArray(fields["children"])
     THEN LET items == fields["children"].items
              count[j \in 0..Len(items)] ==
                IF j = 0 THEN 0
                ELSE count[j - 1] + (IF IsNew(items[j]) THEN 1 + NewObjects(items[j].fields)
                                     ELSE 0)
          IN count[Len(items)]
     ELSE 0)

\* The objects created before an embedded object itself: those below its parent.
NewBefore(v) ==
  IF "parent" \in DOMAIN v.fields /\ IsNew(v.fields["parent"])
  THEN 1 + NewObjects(v.fields["parent"].fields) ELSE 0

\* The position in ops of the create of the owner row (0 when there is none).
OwnerCreate ==
  IF \E i \in DOMAIN ops : ops[i].op = "create" /\ ops[i].model = "owner"
  THEN CHOOSE i \in DOMAIN ops : ops[i].op = "create" /\ ops[i].model = "owner"
  ELSE 0

\* A storage operation of the many-relation step of the owner: a link row of the
\* owner's link table, or a target row written with the owner's foreign key.
IsManyWrite(o) ==
  \/ o.op = "sql" /\ o.stmt = "INSERT"
  \/ o.op \in {"create", "updateById"} /\ o.model = "target" /\ "owner_id" \in DOMAIN o.row

\* The operations of ops that satisfy IsManyWrite, in order.
ManyWrites == SelectSeq(ops, IsManyWrite)

\* The many-relation key of the request's entity, "" when it has none.
ManyKey ==
  IF "fkMany" \in DOMAIN call.entity THEN "fkMany"
  ELSE IF "linkMany" \in DOMAIN call.entity THEN "linkMany" ELSE ""

\* C21: the storage operations of one createEntity come in this order: an
\* owning-one embedded object without id is created, depth-first, before the owner
\* row; the owner row is created once, with the foreign key equal to the id of
\* that new target (or to the id given); every many-relation write (nested
\* create, link-row INSERT, foreign-key update) comes after the owner's create,
\* carries the owner's new id, and the writes follow the elements in input order.
C21_CreateOrder ==
  (call.op = "createEntity" /\ call.model = "owner" /\ "one" \in DOMAIN call.entity
     /\ OwnerCreate # 0) =>
    LET owner == pre.nextId["owner"]
        one == call.entity["one"]
        oneId == IF IsNew(one) THEN pre.nextId["target"] + NewBefore(one) ELSE GivenId(one)
        newOnes == IF IsNew(one) THEN 1 + NewObjects(one.fields) ELSE 0
    IN /\ Cardinality({i \in DOMAIN ops : ops[i].op = "create" /\ ops[i].model = "owner"}) = 1
       /\ ops[OwnerCreate].row["one_id"] = oneId
       /\ Cardinality({i \in 1..(OwnerCreate - 1) : ops[i].op = "create"}) = newOnes
       /\ IsNew(one) => \E r \in rows["target"] \ pre.rows["target"] : r["id"] = oneId
       /\ \A i \in DOMAIN ops :
            IsManyWrite(ops[i]) =>
              /\ i > OwnerCreate
              /\ IF ops[i].op = "sql" THEN ops[i].self = owner ELSE ops[i].row["owner_id"] = owner
       /\ (ret.ok /\ ManyKey # "") =>
            LET items == call.entity[ManyKey].items
                related == ret.val[ManyKey]
            IN /\ Len(ManyWrites) = Len(items)
               /\ Len(related) = Len(items)
               /\ \A j \in DOMAIN items :
                    /\ ManyWrites[j].op = (IF ManyKey = "linkMany" THEN "sql"
                                           ELSE IF IsNew(items[j]) THEN "create"
                                           ELSE "updateById")
                    /\ ManyWrites[j].op = "sql" => ManyWrites[j].target = related[j]["id"]
                    /\ ManyWrites[j].op = "updateById" => ManyWrites[j].id = GivenId(items[j])
                    /\ ~IsNew(items[j]) => related[j]["id"] = GivenId(items[j])
                    /\ IsNew(items[j]) =>
                         /\ related[j]["id"] >= pre.nextId["target"] + newOnes
                         /\ \A k \in 1..(j - 1) :
                              IsNew(items[k]) => related[k]["id"] < related[j]["id"]

\* An owner was created with an embedded object that has an embedded parent, and
\* with a list of a new object and the first target.
C21_Witness ==
  /\ call.op = "createEntity"
  /\ ret.ok
  /\ "one" \in DOMAIN call.entity
  /\ call.entity["one"] = DeepTarget
  /\ ManyKey = "linkMany"
  /\ call.entity["linkMany"].items = <<NewTarget, BareId(1)>>
  /\ OwnerCreate = 3
  /\ Len(ManyWrites) = 2

\* The relation properties of the two models.
RelationKeys == <<"one", "fkMany", "linkMany", "parent", "children">>

RECURSIVE Embedded(_, _)
\* The objects without id embedded in a relation value, at every nesting level;
\* those embedded in an object that has an id are counted when below is TRUE.
Embedded(v, below) ==
  IF isArray(v)
  THEN LET count[j \in 0..Len(v.items)] ==
             IF j = 0 THEN 0 ELSE count[j - 1] + Embedded(v.items[j], below)
       IN count[Len(v.items)]
  ELSE IF v.kind = "object" /\ (IsNew(v) \/ below)
  THEN LET keys == SelectSeq(RelationKeys, LAMBDA k : k \in DOMAIN v.fields)
           count[j \in 0..Len(keys)] ==
             IF j = 0 THEN 0 ELSE count[j - 1] + Embedded(v.fields[keys[j]], below)
       IN (IF IsNew(v) THEN 1 ELSE 0) + count[Len(keys)]
  ELSE 0

RECURSIVE NestingDepth(_)
\* The nesting depth of a relation value: 0 for an id, 1 for an object that
\* embeds none.
NestingDepth(v) ==
  IF isArray(v)
  THEN LET deepest[j \in 0..Len(v.items)] ==
             IF j = 0 THEN 0
             ELSE IF NestingDepth(v.items[j]) > deepest[j - 1]
                  THEN NestingDepth(v.items[j]) ELSE deepest[j - 1]
       IN deepest[Len(v.items)]
  ELSE IF v.kind = "object"
  THEN LET keys == SelectSeq(RelationKeys, LAMBDA k : k \in DOMAIN v.fields)
           deepest[j \in 0..Len(keys)] ==
             IF j = 0 THEN 0
             ELSE IF NestingDepth(v.fields[keys[j]]) > deepest[j - 1]
                  THEN NestingDepth(v.fields[keys[j]]) ELSE deepest[j - 1]
       IN 1 + deepest[Len(keys)]
  ELSE 0

\* C30 as stated: the number of recursive createEntity calls of a request equals
\* the number of embedded objects without id in its entity, at every nesting
\* level, and the recursion depth is at most the nesting depth of the entity.
C30_OneCallPerEmbeddedObject ==
  call.op = "createEntity" =>
    /\ ret.calls - 1 = Embedded(Obj(call.entity), TRUE) - 1
    /\ ret.deepest <= NestingDepth(Obj(call.entity))

\* C30 amended: a createEntity that succeeds makes one recursive call for every
\* object without id that the entity embeds directly or through objects without
\* id; an object embedded in an object that has an id is not created.  A
\* createEntity that fails has made at most that many.  The recursion depth is at
\* most the nesting depth of the entity.
C30_OneCallPerReachedObject ==
  call.op = "createEntity" =>
    /\ ret.calls - 1 <= Embedded(Obj(call.entity), FALSE) - 1
    /\ ret.ok => ret.calls - 1 = Embedded(Obj(call.entity), FALSE) - 1
    /\ ret.ok => Cardinality({i \in DOMAIN ops : ops[i].op = "create"}) = ret.calls
    /\ ret.deepest <= NestingDepth(Obj(call.entity))

\* An owner was created whose entity embeds an object in an object with id: the
\* calls are fewer than the objects without id.
C30_Witness ==
  /\ call.op = "createEntity"
  /\ call.model = "owner"
  /\ ret.ok
  /\ ret.calls = 3
  /\ ret.deepest = 3
  /\ Embedded(Obj(call.entity), TRUE) = 4

\* C27: EntityManager.createEntity emits exactly one entity.create for a
\* successful call, after every storage operation of the cascade, with after the
\* entity it returns; the entities the cascade creates for embedded one-relation
\* objects and many-relation elements emit no event, and a failed call emits none.
C27_CreateEmitsOnceAfterCascade ==
  call.op = "createEntity" =>
    IF ret.ok
    THEN /\ Len(events) = 1
         /\ events[1].name = "entity.create"
         /\ events[1].at = Len(ops)
         /\ events[1].payload.modelSingularCode = call.model
         /\ events[1].payload.after = ret.val
    ELSE events = <<>>

\* An owner was created with four nested createEntity calls and one event.
C27_Witness ==
  /\ call.op = "createEntity"
  /\ call.model = "owner"
  /\ ret.ok
  /\ ret.calls = 5
  /\ Cardinality({i \in DOMAIN ops : ops[i].op = "create"}) = 5
  /\ Len(events) = 1
  /\ events[1].payload.after["id"] \in Ids(rows["owner"])

----------------------------------------------------------------------------
\* Properties of addRelations and removeRelations (SpecRelations)

\* The (owner id, relation.id) pairs of the running addRelations or
\* removeRelations request.
RelationPairs == {<<call.id, IdOf(call.relations[j])>> : j \in DOMAIN call.relations}

\* The request is op on an owner that exists.
EditsRelationsOfOwner(op) == call.op = op /\ call.id \in Ids(pre.rows["owner"])

\* C5: addRelations on an existing owner leaves exactly one link row for every
\* (owner id, relation.id) pair it is given and adds no other row; when the pairs
\* are linked already (a repeated call) the link table is left as it was.
C5_AddRelationsIdempotent ==
  EditsRelationsOfOwner("addRelations") =>
    /\ ret.ok
    /\ \A p \in RelationPairs : LinkCount(links[LinkTable], p) = 1
    /\ \A p \in LinkPairs \ RelationPairs : AddedLinks(p) = 0
    /\ (\A p \in RelationPairs : LinkCount(pre.links[LinkTable], p) > 0) => links = pre.links

\* addRelations was called with two pairs that were both linked before.
C5_Witness ==
  /\ EditsRelationsOfOwner("addRelations")
  /\ ret.ok
  /\ Cardinality(RelationPairs) = 2
  /\ \A p \in RelationPairs : LinkCount(pre.links[LinkTable], p) = 1
  /\ links = pre.links

\* C6: removeRelations on an existing owner returns without error and leaves no
\* link row for any pair it is given; the other link rows stay, so with pairs
\* that have no link row the link table is unchanged.
C6_RemoveRelationsDeletesPair ==
  EditsRelationsOfOwner("removeRelations") =>
    /\ ret.ok
    /\ \A p \in RelationPairs : LinkCount(links[LinkTable], p) = 0
    /\ \A p \in LinkPairs \ RelationPairs : AddedLinks(p) = 0
    /\ (\A p \in RelationPairs : LinkCount(pre.links[LinkTable], p) = 0) => links = pre.links

\* removeRelations was called with a pair that has no link row while the owner
\* has another link.
C6_Witness ==
  /\ EditsRelationsOfOwner("removeRelations")
  /\ ret.ok
  /\ \A p \in RelationPairs : LinkCount(pre.links[LinkTable], p) = 0
  /\ \E p \in DOMAIN pre.links[LinkTable] : p[1] = call.id
  /\ links = pre.links

\* A storage operation that writes.
IsWrite(o) ==
  \/ o.op \in {"create", "updateById", "deleteById"}
  \/ o.op = "sql" /\ o.stmt \in {"INSERT", "DELETE"}

NoWrites == \A i \in DOMAIN ops : ~IsWrite(ops[i])

\* The request is an addRelations or a removeRelations.
EditsRelations == call.op \in {"addRelations", "removeRelations"}

\* C12: addRelations and removeRelations create, update and delete no entity row
\* of any model; every write they issue is a statement on the link table of the
\* property for the pair (owner id, one of the relation ids), and the link rows of
\* every other pair are as they were.
C12_RelationsTouchOnlyGivenPairs ==
  EditsRelations =>
    /\ rows = pre.rows
    /\ nextId = pre.nextId
    /\ \A p \in LinkPairs \ RelationPairs : AddedLinks(p) = 0
    /\ \A i \in DOMAIN ops :
         IsWrite(ops[i]) =>
           /\ ops[i].op = "sql"
           /\ ops[i].table = findProperty("owner", call.property).linkTableName
           /\ <<ops[i].self, ops[i].target>> \in RelationPairs

\* removeRelations deleted a link of an owner that keeps another link, while
\* another owner is linked to the same target.
C12_Witness ==
  /\ EditsRelationsOfOwner("removeRelations")
  /\ ret.ok
  /\ links # pre.links
  /\ \E p \in DOMAIN links[LinkTable] : p[1] = call.id
  /\ \E p \in DOMAIN links[LinkTable], q \in RelationPairs : p[1] # call.id /\ p[2] = q[2]

\* The property of the request is no many-relation of the owner model.
NotManyRelation ==
  \/ ~HasProperty("owner", call.property)
  \/ findProperty("owner", call.property).relation # "many"

\* C13: addRelations and removeRelations on a scalar property, on a one-relation,
\* on an unknown property code or for an owner id no entity has raise an error,
\* insert and delete no link row and emit no event.
C13_RelationsRejected ==
  (EditsRelations /\ (NotManyRelation \/ call.id \notin Ids(pre.rows["owner"]))) =>
    /\ ~ret.ok
    /\ NoWrites
    /\ links = pre.links
    /\ rows = pre.rows
    /\ events = <<>>

\* addRelations on the one-relation of an existing owner, with a target that
\* exists, was rejected.
C13_Witness ==
  /\ EditsRelationsOfOwner("addRelations")
  /\ call.property = "one"
  /\ \E j \in DOMAIN call.relations : IdOf(call.relations[j]) \in Ids(pre.rows["target"])
  /\ ~ret.ok
  /\ events = <<>>

----------------------------------------------------------------------------
\* Properties of deleteById (SpecDelete)

\* The rows of the request's collection that had the request's id when it began.
Existed == {r \in pre.rows[call.model] : r["id"] = call.id}

\* C8: deleteById returns without error; for an id no row has it issues no
\* delete and emits no event; for an existing id it removes that row and emits
\* exactly one entity.delete whose before is the full prior row, the columns no
\* property declares included.
C8_DeleteEmitsIffExisted ==
  call.op = "deleteById" =>
    /\ ret.ok
    /\ links = pre.links
    /\ \A m \in Models \ {call.model} : rows[m] = pre.rows[m]
    /\ IF Existed = {}
       THEN /\ NoWrites
            /\ events = <<>>
            /\ rows = pre.rows
       ELSE /\ rows[call.model] = pre.rows[call.model] \ Existed
            /\ Len(events) = 1
            /\ events[1].name = "entity.delete"
            /\ events[1].payload.before \in Existed

\* An owner with a one-relation was deleted while another owner stays.
C8_Witness ==
  /\ call.op = "deleteById"
  /\ call.model = "owner"
  /\ Existed # {}
  /\ Len(events) = 1
  /\ events[1].payload.before["one_id"] # NullId
  /\ "legacy" \in DOMAIN events[1].payload.before
  /\ rows["owner"] # {}

----------------------------------------------------------------------------
\* Properties of the cascading update (SpecUpdate, SpecReplace)

\* The request is an updateEntityById of an owner that exists.
UpdatesOwner == call.op = "updateEntityById" /\ call.id \in Ids(pre.rows["owner"])

\* The entity as updateEntityById loads it: findById without relation properties.
LoadedEntity ==
  mapDbRowToEntity("owner", CHOOSE r \in pre.rows["owner"] : r["id"] = call.id, FALSE)

\* The ids of the targets linked to the request's owner when it began, ascending.
RECURSIVE Ascending(_)
Ascending(set) ==
  IF set = {} THEN <<>>
  ELSE LET least == CHOOSE x \in set : \A y \in set : x <= y
       IN <<least>> \o Ascending(set \ {least})

LinkedBefore == Ascending({p[2] : p \in {q \in DOMAIN pre.links[LinkTable] : q[1] = call.id}})

\* No top-level field of entityToSave differs from the current entity: a scalar
\* equals the stored value, a link-table many-relation lists exactly the targets
\* linked now.
NoFieldDiffers ==
  \A k \in DOMAIN call.entity :
    IF k = "linkMany"
    THEN /\ \A j \in DOMAIN call.entity[k].items : ~IsNew(call.entity[k].items[j])
         /\ [j \in DOMAIN call.entity[k].items |-> GivenId(call.entity[k].items[j])] = LinkedBefore
    ELSE k \in DOMAIN LoadedEntity /\ LoadedEntity[k] = call.entity[k]

\* C7 as stated: an updateEntityById whose entityToSave has no top-level field
\* differing from the current entity, a many-relation value identical to the
\* current one included, issues zero writes and returns the loaded entity.
C7_IdenticalEntityNoWrite ==
  (UpdatesOwner /\ NoFieldDiffers) =>
    /\ ret.ok
    /\ NoWrites
    /\ ret.val = LoadedEntity

\* C7 as amended: an updateEntityById all of whose entityToSave keys are keys of
\* the entity as findById loads it (scalar and foreign-key columns, no relation
\* key) with equal values issues zero writes, changes nothing and returns the
\* loaded entity.
C7_NoChangeNoWrite ==
  (UpdatesOwner /\ \A k \in DOMAIN call.entity :
                     k \in DOMAIN LoadedEntity /\ LoadedEntity[k] = call.entity[k]) =>
    /\ ret.ok
    /\ NoWrites
    /\ ret.val = LoadedEntity
    /\ rows = pre.rows
    /\ links = pre.links

\* An owner named "a" already was updated with the name "a".
C7_Witness ==
  /\ UpdatesOwner
  /\ DOMAIN call.entity = {"name"}
  /\ LoadedEntity["name"] = call.entity["name"]
  /\ ret.ok
  /\ Len(ops) > 0

\* C9: after a successful updateEntityById with a link-table many-relation list L
\* the link rows of the owner are exactly one row (owner id, id of e) for every
\* e in L, the ids of the elements with id being the ids given and those of the
\* others newly assigned; the DELETE of the owner's link rows is issued before
\* every INSERT; the link rows of other owners are unchanged.
C9_LinkManyFullReplace ==
  (UpdatesOwner /\ ret.ok /\ "linkMany" \in DOMAIN call.entity) =>
    LET items == call.entity["linkMany"].items
        related == ret.val["linkMany"]
    IN /\ Len(related) = Len(items)
       /\ \A j \in DOMAIN items :
            IF IsNew(items[j]) THEN related[j]["id"] \notin Ids(pre.rows["target"])
            ELSE related[j]["id"] = GivenId(items[j])
       /\ {p \in DOMAIN links[LinkTable] : p[1] = call.id}
            = {<<call.id, related[j]["id"]>> : j \in DOMAIN related}
       /\ \A p \in LinkPairs : p[1] # call.id => AddedLinks(p) = 0
       /\ \E d \in DOMAIN ops :
            /\ ops[d].op = "sql" /\ ops[d].stmt = "DELETE" /\ ops[d].self = call.id
            /\ \A i \in DOMAIN ops : (ops[i].op = "sql" /\ ops[i].stmt = "INSERT") => d < i

\* The links of an owner were replaced by a list with a new object while another
\* owner keeps its link.
C9_Witness ==
  /\ UpdatesOwner
  /\ ret.ok
  /\ "linkMany" \in DOMAIN call.entity
  /\ Len(call.entity["linkMany"].items) = 2
  /\ \E j \in 1..2 : IsNew(call.entity["linkMany"].items[j])
  /\ \E p \in DOMAIN pre.links[LinkTable] : p[1] = call.id /\ p \notin DOMAIN links[LinkTable]
  /\ \E p \in DOMAIN links[LinkTable] : p[1] # call.id

\* The foreign key of the request's owner now.
OneIdNow == (CHOOSE r \in rows["owner"] : r["id"] = call.id)["one_id"]

\* C10: updateEntityById with an owning-one field given as an object without id
\* creates that object in the target collection and writes its new id into the
\* owner's targetIdColumnName; an object with id or a bare id is written as the
\* foreign key directly.
C10_UpdateCreatesEmbeddedOne ==
  (UpdatesOwner /\ "one" \in DOMAIN call.entity) =>
    /\ ret.ok
    /\ IF IsNew(call.entity["one"])
       THEN \E t \in rows["target"] \ pre.rows["target"] : OneIdNow = t["id"]
       ELSE OneIdNow = GivenId(call.entity["one"])

\* C11: a successful updateEntityById with a non-empty change set emits exactly
\* one event, an entity.update, after every storage operation of the update,
\* with before the entity as loaded, after the entity returned and changes the
\* computed change set; an update without change or one that fails emits none.
C11_UpdateEmitsOnceAfterWrites ==
  call.op = "updateEntityById" =>
    IF ret.ok /\ DOMAIN getEntityPartChanges(LoadedEntity, call.entity) # {}
    THEN /\ Len(events) = 1
         /\ events[1].name = "entity.update"
         /\ events[1].at = Len(ops)
         /\ events[1].payload.before = LoadedEntity
         /\ events[1].payload.after = ret.val
         /\ events[1].payload.changes = getEntityPartChanges(LoadedEntity, call.entity)
    ELSE events = <<>>

\* An update that wrote a column or replaced a link emitted its event last.
C11_Witness ==
  /\ UpdatesOwner
  /\ ret.ok
  /\ Len(events) = 1
  /\ \E i \in DOMAIN ops : IsWrite(ops[i])
  /\ events[1].at = Len(ops)
  /\ "linkMany" \in DOMAIN events[1].payload.changes

\* C16: updateEntityById without an id fails before any storage operation, and
\* with an id no entity has fails as not found after the read; in both cases
\* nothing is written to a row or a link table and no event is emitted.
C16_UpdateRejectsMissingOrUnknownId ==
  (call.op = "updateEntityById" /\ call.id \notin Ids(pre.rows["owner"])) =>
    /\ ~ret.ok
    /\ IF Truthy(call.id)
       THEN ret.err = "was not found."
       ELSE ret.err = "Id is required when updating an entity." /\ ops = <<>>
    /\ NoWrites
    /\ rows = pre.rows
    /\ links = pre.links
    /\ nextId = pre.nextId
    /\ events = <<>>

\* An update of the links of an owner that does not exist, while another owner
\* exists, was rejected after the read.
C16_Witness ==
  /\ call.op = "updateEntityById"
  /\ Truthy(call.id)
  /\ call.id \notin Ids(pre.rows["owner"])
  /\ pre.rows["owner"] # {}
  /\ pre.rows["target"] # {}
  /\ "linkMany" \in DOMAIN call.entity
  /\ ret.err = "was not found."
  /\ Len(ops) = 1

\* The request is an update of the links of an existing owner that failed on an
\* element whose id names no target.
ReplaceFailedPartway ==
  /\ UpdatesOwner
  /\ "linkMany" \in DOMAIN call.entity
  /\ ~ret.ok
  /\ ret.err = "Entity in field is not exists."

\* The link rows of the request's owner in a link table.
LinksOfOwner(L) == {p \in DOMAIN L : p[1] = call.id}

\* What a failed replacement of the links always leaves: no event, the columns
\* written, the old link rows deleted, the rows inserted before the failure and
\* nothing else for this owner, and no link for the element that failed.
FailedReplaceKeepsWrites ==
  /\ events = <<>>
  /\ \E d \in DOMAIN ops : ops[d].op = "sql" /\ ops[d].stmt = "DELETE" /\ ops[d].self = call.id
  /\ LinksOfOwner(links[LinkTable])
       = {<<call.id, ops[i].target>> : i \in {j \in DOMAIN ops : ops[j].op = "sql" /\ ops[j].stmt = "INSERT"}}
  /\ \A p \in LinkPairs : p[1] # call.id => AddedLinks(p) = 0
  /\ Cardinality(rows["target"]) = Cardinality(pre.rows["target"]) + Cardinality(CreatesOfTargets)
  /\ "name" \in DOMAIN call.entity =>
       \E r \in rows["owner"] : r["id"] = call.id /\ r["name"] = call.entity["name"]
  /\ \E j \in DOMAIN call.entity["linkMany"].items :
       /\ ~IsNew(call.entity["linkMany"].items[j])
       /\ LinkCount(links[LinkTable], <<call.id, GivenId(call.entity["linkMany"].items[j])>>) = 0

\* C18 as stated: when the reinsertion of a replaced link-table many-relation
\* fails on an element whose id is not found, the old link rows are deleted, the
\* column update and the rows inserted before the failure stay, no event is
\* emitted, and the links of the owner are neither the old set nor the requested
\* one (taken for an owner that had links and a failure after the first INSERT).
C18_FailedReplaceLeavesNeitherSet ==
  (/\ ReplaceFailedPartway
   /\ LinksOfOwner(pre.links[LinkTable]) # {}
   /\ \E i \in DOMAIN ops : ops[i].op = "sql" /\ ops[i].stmt = "INSERT") =>
    /\ FailedReplaceKeepsWrites
    /\ LinksOfOwner(links[LinkTable]) # LinksOfOwner(pre.links[LinkTable])

\* C18 as amended: the links of the owner are then exactly the rows inserted
\* before the failure, which is never the requested set, and differ from the old
\* set unless the elements saved before the failure are the old targets.
C18_FailedReplaceKeepsInserted ==
  ReplaceFailedPartway =>
    /\ FailedReplaceKeepsWrites
    /\ (LinksOfOwner(links[LinkTable]) = LinksOfOwner(pre.links[LinkTable]))
         <=> (LinksOfOwner(pre.links[LinkTable])
                = {<<call.id, ops[i].target>> :
                     i \in {j \in DOMAIN ops : ops[j].op = "sql" /\ ops[j].stmt = "INSERT"}})

\* A rename with a replacement of the links failed on its second element: the
\* name is written, the old link is gone, the link of the first element is there.
C18_Witness ==
  /\ ReplaceFailedPartway
  /\ "name" \in DOMAIN call.entity
  /\ \E r \in rows["owner"] \ pre.rows["owner"] : r["id"] = call.id
  /\ LinksOfOwner(links[LinkTable]) # {}
  /\ LinksOfOwner(pre.links[LinkTable]) \ LinksOfOwner(links[LinkTable]) # {}

\* The targets whose foreign key was the request's owner when it began.
RelatedBefore == {t \in pre.rows["target"] : t["owner_id"] = call.id}

\* C24: updateEntityById with a list S' for a many-relation by foreign key clears
\* no existing link: every target whose foreign key was the owner's id keeps it,
\* in S' or not, no row is deleted and no other target is touched; after a
\* successful update every element of S' (created, or linked by its id) is a
\* target row whose foreign key is the owner's id.
C24_FkManyUpdateClearsNoLink ==
  (UpdatesOwner /\ "fkMany" \in DOMAIN call.entity) =>
    /\ \A t \in RelatedBefore : t \in rows["target"]
    /\ \A t \in pre.rows["target"] :
         \E r \in rows["target"] :
           /\ r["id"] = t["id"]
           /\ r # t => (r = [t EXCEPT !["owner_id"] = call.id]
                        /\ \E j \in DOMAIN call.entity["fkMany"].items :
                             /\ ~IsNew(call.entity["fkMany"].items[j])
                             /\ GivenId(call.entity["fkMany"].items[j]) = t["id"])
    /\ \A i \in DOMAIN ops : ops[i].op # "deleteById"
    /\ ret.ok =>
         LET items == call.entity["fkMany"].items
             related == ret.val["fkMany"]
         IN /\ Len(related) = Len(items)
            /\ \A j \in DOMAIN items :
                 /\ \E r \in rows["target"] :
                      r["id"] = related[j]["id"] /\ r["owner_id"] = call.id
                 /\ IF IsNew(items[j]) THEN related[j]["id"] \notin Ids(pre.rows["target"])
                    ELSE related[j]["id"] = GivenId(items[j])

\* An owner related to the first target was updated with a list of the last
\* target only: both targets are related to it afterwards.
C24_Witness ==
  /\ UpdatesOwner
  /\ "fkMany" \in DOMAIN call.entity
  /\ ret.ok
  /\ call.entity["fkMany"].items = <<BareId(MaxTarget)>>
  /\ \E t \in RelatedBefore : t["id"] = 1
  /\ \A t \in rows["target"] : t["owner_id"] = call.id
  /\ Cardinality(rows["target"]) = MaxTarget
  /\ MaxTarget > 1

----------------------------------------------------------------------------
\* Properties of concurrent deletions (SpecConcurrentDelete)

\* The entity.delete events emitted for the target of an id.
DeleteEventsOf(id) ==
  {i \in DOMAIN events : /\ events[i].name = "entity.delete"
                         /\ events[i].payload.modelSingularCode = "target"
                         /\ events[i].payload.before["id"] = id}

\* C29: however concurrent deleteById calls on one id interleave, at most one
\* entity.delete event is emitted for the entity.
C29_AtMostOneDeleteEvent ==
  \A id \in TargetIds : Cardinality(DeleteEventsOf(id)) <= 1

----------------------------------------------------------------------------
\* Properties of the link table (SpecLinks)

\* The INSERT statements of the request for a pair.
InsertsOf(p) ==
  {i \in DOMAIN ops : ops[i].op = "sql" /\ ops[i].stmt = "INSERT"
                        /\ <<ops[i].self, ops[i].target>> = p}

C28_LinkRowsReferToExistingRows ==
  \A p \in DOMAIN links[LinkTable] :
    LinkCount(links[LinkTable], p) > 0 =>
      /\ p[1] \in Ids(rows["owner"])
      /\ p[2] \in Ids(rows["target"])

----------------------------------------------------------------------------
\* Properties of concurrent updates (SpecConcurrent)

\* Two callers have both got the response of a replacement of the links of one
\* owner.
BothReturned(t, u) ==
  /\ t # u
  /\ tasks[t].pc = "done"
  /\ tasks[u].pc = "done"
  /\ tasks[t].id = tasks[u].id

\* The targets a task was given, and the targets its owner is linked to now.
Requested(t) == {tasks[t].items[j].id : j \in DOMAIN tasks[t].items}
LinkedNow(t) == {p[2] : p \in {q \in DOMAIN links[LinkTable] : q[1] = tasks[t].id}}

\* C20: two updateEntityById calls that replace the links of one owner by A and by
\* B are not serialized: their DELETE and INSERT statements interleave freely.
\* When both have returned, the links of the owner hold all of A or all of B and
\* nothing outside of A and B; they need not be A or B.
C20_ConcurrentReplaceNotSerialized ==
  \A t, u \in Callers :
    BothReturned(t, u) =>
      /\ LinkedNow(t) \subseteq Requested(t) \cup Requested(u)
      /\ Requested(t) \subseteq LinkedNow(t) \/ Requested(u) \subseteq LinkedNow(t)

\* Both calls have returned and the links of the owner are the union of the two
\* lists, which is neither of them.
C20_Witness ==
  \E t, u \in Callers :
    /\ BothReturned(t, u)
    /\ LinkedNow(t) # Requested(t)
    /\ LinkedNow(t) # Requested(u)
    /\ LinkedNow(t) = Requested(t) \cup Requested(u)

----------------------------------------------------------------------------
\* Properties of session issuance (SpecSession)

\* The users whose login is the account of the request, and those of them whose
\* password is the password of the request.
UsersOfAccount == {u \in rows["oc_user"] : u["login"] = call.account}
UsersOfInput == {u \in UsersOfAccount : u["password"] = call.password}

\* C31: createSession issues a session (token, cookie, ctx.output.token) only
\* when a user has the account as login and the password of the input is that
\* user's; for an unknown account or a wrong password it fails with 'Wrong
\* account or password.', sets no cookie and writes no output.
C31_SessionOnlyForMatchingPassword ==
  call.op = "createSession" =>
    IF UsersOfInput # {}
    THEN ret.ok => /\ Len(ret.val.cookies) = 1
                   /\ ret.val.output["token"] = ret.val.cookies[1].value
    ELSE /\ ~ret.ok
         /\ ret.err = "Wrong account or password."
         /\ ret.val.cookies = <<>>
         /\ ret.val.output = EmptyObject

\* What the handler does check: a session is issued for the login of a user, in
\* the name of that user, whatever the password; an unknown account fails with
\* the message, without cookie and without output.
SessionOnlyForKnownAccount ==
  call.op = "createSession" =>
    IF UsersOfAccount # {}
    THEN /\ ret.ok
         /\ Len(ret.val.cookies) = 1
         /\ ret.val.cookies[1].name = SessionCookieName
         /\ ret.val.output = ("token" :> ret.val.cookies[1].value)
         /\ \E u \in UsersOfAccount :
              /\ ret.val.cookies[1].value.jwt.aud = ToString(u["id"])
              /\ ret.val.cookies[1].value.jwt.act = call.account
    ELSE /\ ~ret.ok
         /\ ret.err = "Wrong account or password."
         /\ ret.val.cookies = <<>>
         /\ ret.val.output = EmptyObject

====
